---------------------------- MODULE Spec2Model ----------------------------
(***************************************************************************)
(* Model of extractor/crawler.py: the multi-strategy content acquisition   *)
(* pipeline (try_multiple_approaches), the guaranteed-fallback wrapper     *)
(* (extract_content_with_guaranteed_fallback) and the recursive            *)
(* same-origin crawler (crawl_and_extract).                                *)
(*                                                                         *)
(* A Python str is a sequence of one-character strings, so that len, in,   *)
(* strip, split, lower and the f-string renderings are computed character  *)
(* by character as the code computes them.  "" is << >>.                   *)
(***************************************************************************)
EXTENDS Integers, Sequences, FiniteSets, TLC

(***************************************************************************)
(* Bounds of the model.                                                    *)
(***************************************************************************)
\* longest seed list handed to crawl_and_extract
MaxSeeds == 2
\* largest max_depth handed to crawl_and_extract
MaxDepth == 2

(***************************************************************************)
(* Python str operations.                                                  *)
(***************************************************************************)
UpperCase == <<"A","B","C","D","E","F","G","H","I","J","K","L","M","N","O","P","Q","R","S","T","U","V","W","X","Y","Z">>
LowerCase == <<"a","b","c","d","e","f","g","h","i","j","k","l","m","n","o","p","q","r","s","t","u","v","w","x","y","z">>
Digits == <<"0","1","2","3","4","5","6","7","8","9">>

Range(s) == {s[i] : i \in 1..Len(s)}

UpperChars == Range(UpperCase)
AlphaChars == Range(UpperCase) \cup Range(LowerCase)
AlnumChars == AlphaChars \cup Range(Digits)
SpaceChars == {" ", "\n", "\t", "\r"}

\* the least element of a set of indices, 0 for the empty set
Least(S) == IF S = {} THEN 0 ELSE CHOOSE i \in S : \A j \in S : i <= j

\* str.isalnum() of one character
isalnum(c) == c \in AlnumChars

\* str.isspace() of one character
isspace(c) == c \in SpaceChars

\* c.lower() of one character
lower_char(c) ==
  IF c \in UpperChars THEN LowerCase[CHOOSE j \in 1..26 : UpperCase[j] = c] ELSE c

\* str.lower()
lower(s) == [i \in 1..Len(s) |-> lower_char(s[i])]

\* pat in s  (substring test)
In(pat, s) ==
  \/ Len(pat) = 0
  \/ \E i \in 1..(Len(s) - Len(pat) + 1) :
        /\ s[i] = pat[1]
        /\ \A j \in 2..Len(pat) : s[i + j - 1] = pat[j]

\* s.startswith(pre)
startswith(s, pre) ==
  /\ Len(pre) <= Len(s)
  /\ \A j \in 1..Len(pre) : s[j] = pre[j]

\* index of the first character of s that is no whitespace, Len(s)+1 when none
first_kept(s) ==
  IF \E i \in 1..Len(s) : ~isspace(s[i])
    THEN CHOOSE i \in 1..Len(s) : ~isspace(s[i]) /\ \A j \in 1..(i - 1) : isspace(s[j])
    ELSE Len(s) + 1

\* index of the last character of s that is no whitespace, 0 when none
last_kept(s) ==
  CHOOSE i \in 0..Len(s) :
    /\ i = 0 \/ ~isspace(s[i])
    /\ \A j \in (i + 1)..Len(s) : isspace(s[j])

\* s.strip()
strip(s) == SubSeq(s, first_kept(s), last_kept(s))

RECURSIVE PiecesFrom(_, _, _)
\* the pieces of s from position b on, c being the next cut (0 when none)
PiecesUpTo(s, cuts, b, c) ==
  IF c = 0 THEN << SubSeq(s, b, Len(s)) >>
  ELSE << SubSeq(s, b, c - 1) >> \o PiecesFrom(s, cuts, c + 1)

\* the pieces of s from position b on
PiecesFrom(s, cuts, b) == PiecesUpTo(s, cuts, b, Least({c \in cuts : c >= b}))

\* the pieces of s between the characters at the positions in cuts
Pieces(s, cuts) == PiecesFrom(s, cuts, 1)

\* s.split('\n')
split_lines(s) == Pieces(s, {i \in 1..Len(s) : s[i] = "\n"})

RECURSIVE join(_, _)
\* sep.join(parts)
join(sep, parts) ==
  IF Len(parts) = 0 THEN << >>
  ELSE IF Len(parts) = 1 THEN parts[1]
  ELSE parts[1] \o sep \o join(sep, Tail(parts))

\* str(i) for the small naturals the code renders
str(i) == IF i < 10 THEN <<Digits[i + 1]>> ELSE <<Digits[(i \div 10) + 1], Digits[(i % 10) + 1]>>

\* n copies of s, concatenated: s * n
RECURSIVE rep(_, _)
rep(s, n) == IF n = 0 THEN << >> ELSE s \o rep(s, n - 1)

(***************************************************************************)
(* urllib.parse, as far as the crawler uses it.                            *)
(***************************************************************************)
SchemeChars == AlnumChars \cup {"+", "-", "."}

\* index of the first character of s that is in set cs, Len(s)+1 when none
FirstOf(cs, s) ==
  IF \E i \in 1..Len(s) : s[i] \in cs
    THEN Least({i \in 1..Len(s) : s[i] \in cs})
    ELSE Len(s) + 1

ParseError == [exc |-> TRUE, scheme |-> << >>, netloc |-> << >>, path |-> << >>]

\* the end of urlsplit: the bracket check of the netloc ("Invalid IPv6 URL"),
\* and the path up to the query or fragment
split_path(scheme, netloc, rest) ==
  IF ("[" \in Range(netloc)) # ("]" \in Range(netloc))
    THEN ParseError
    ELSE [exc |-> FALSE, scheme |-> scheme, netloc |-> netloc,
          path |-> SubSeq(rest, 1, FirstOf({"?", "#"}, rest) - 1)]

\* the netloc runs up to position delim of what follows "//"
split_netloc_at(scheme, after, delim) ==
  split_path(scheme, SubSeq(after, 1, delim - 1), SubSeq(after, delim, Len(after)))

\* rest is the URL after its scheme
split_netloc(scheme, rest) ==
  IF Len(rest) >= 2 /\ rest[1] = "/" /\ rest[2] = "/"
    THEN split_netloc_at(scheme, SubSeq(rest, 3, Len(rest)),
                         FirstOf({"/", "?", "#"}, SubSeq(rest, 3, Len(rest))))
    ELSE split_path(scheme, << >>, rest)

\* i is the position of the first ":" of url
split_scheme(url, i) ==
  IF /\ i > 1 /\ i <= Len(url)
     /\ url[1] \in AlphaChars
     /\ \A j \in 1..(i - 1) : url[j] \in SchemeChars
    THEN split_netloc(lower(SubSeq(url, 1, i - 1)), SubSeq(url, i + 1, Len(url)))
    ELSE split_netloc(<< >>, url)

\* urlparse(url): exc is TRUE when it raises ValueError
urlparse(url) == split_scheme(url, FirstOf({":"}, url))

\* urljoin of a parsed base and a parsed href
join_parsed(base, href, b, h) ==
  IF b.exc \/ h.exc THEN [exc |-> TRUE, url |-> << >>]
  ELSE IF h.scheme # << >> THEN [exc |-> FALSE, url |-> href]
  ELSE [exc |-> FALSE, url |-> b.scheme \o <<":","/","/">> \o b.netloc \o href]

\* urljoin(base, href) for the hrefs of the modelled pages: an empty href,
\* an absolute URL, or a path starting with "/"; exc as for urlparse
urljoin(base, href) ==
  IF href = << >> THEN [exc |-> FALSE, url |-> base]
  ELSE join_parsed(base, href, urlparse(base), urlparse(href))

(***************************************************************************)
(* URL predicates of the crawler.                                          *)
(***************************************************************************)
valid_parsed(result) ==
  IF result.exc THEN FALSE
  ELSE result.scheme # << >> /\ result.netloc # << >>

is_valid_url(url) == valid_parsed(urlparse(url))

skip_patterns ==
  << <<".","z","i","p">>, <<".","t","a","r",".","g","z">>, <<".","t","a","r",".","b","z","2">>, <<".","p","d","f">>, <<".","d","o","c">>, <<".","d","o","c","x">>,
     <<"/","a","r","c","h","i","v","e","s","/">>, <<"/","d","o","w","n","l","o","a","d","/">>, <<"/","d","o","w","n","l","o","a","d","s","/">>, <<"/","r","e","l","e","a","s","e","s","/">>,
     <<"/","a","p","i","/">>, <<"/","j","s","o","n">>, <<"/","x","m","l">>, <<"/","r","s","s">>,
     <<".","j","p","g">>, <<".","j","p","e","g">>, <<".","p","n","g">>, <<".","g","i","f">>, <<".","s","v","g">>, <<".","m","p","4">>, <<".","m","p","3">>,
     <<"/","s","e","a","r","c","h">>, <<"/","l","o","g","i","n">>, <<"/","r","e","g","i","s","t","e","r">>, <<"/","l","o","g","o","u","t">>, <<"/","a","d","m","i","n">> >>

matches_skip_pattern(url_lower) ==
  \E p \in 1..Len(skip_patterns) : In(skip_patterns[p], url_lower)

should_skip_url(url) == matches_skip_pattern(lower(url))

(***************************************************************************)
(* Fallback Content Synthesizer: generate_fallback_content.                *)
(***************************************************************************)
\* domain_modules['discord.com']['modules']  (line 455)
modules_discord_com ==
  << [name |-> <<"S","e","r","v","e","r"," ","M","a","n","a","g","e","m","e","n","t">>,
      description |-> <<"C","r","e","a","t","e"," ","a","n","d"," ","m","a","n","a","g","e"," ","D","i","s","c","o","r","d"," ","s","e","r","v","e","r","s",","," ","c","h","a","n","n","e","l","s",","," ","a","n","d"," ","p","e","r","m","i","s","s","i","o","n","s">>],
     [name |-> <<"U","s","e","r"," ","S","e","t","t","i","n","g","s">>,
      description |-> <<"C","u","s","t","o","m","i","z","e"," ","y","o","u","r"," ","D","i","s","c","o","r","d"," ","p","r","o","f","i","l","e",","," ","p","r","i","v","a","c","y",","," ","a","n","d"," ","n","o","t","i","f","i","c","a","t","i","o","n"," ","s","e","t","t","i","n","g","s">>],
     [name |-> <<"V","o","i","c","e"," ","&"," ","V","i","d","e","o">>,
      description |-> <<"U","s","e"," ","v","o","i","c","e"," ","c","h","a","n","n","e","l","s",","," ","v","i","d","e","o"," ","c","a","l","l","s",","," ","a","n","d"," ","s","c","r","e","e","n"," ","s","h","a","r","i","n","g"," ","f","e","a","t","u","r","e","s">>],
     [name |-> <<"T","e","x","t"," ","M","e","s","s","a","g","i","n","g">>,
      description |-> <<"S","e","n","d"," ","m","e","s","s","a","g","e","s",","," ","u","s","e"," ","e","m","o","j","i","s",","," ","a","n","d"," ","m","a","n","a","g","e"," ","c","o","n","v","e","r","s","a","t","i","o","n","s">>],
     [name |-> <<"B","o","t","s"," ","&"," ","I","n","t","e","g","r","a","t","i","o","n","s">>,
      description |-> <<"A","d","d"," ","b","o","t","s"," ","a","n","d"," ","i","n","t","e","g","r","a","t","e"," ","t","h","i","r","d","-","p","a","r","t","y"," ","s","e","r","v","i","c","e","s"," ","w","i","t","h"," ","D","i","s","c","o","r","d">>] >>

\* domain_modules['instagram.com']['modules']  (line 464)
modules_instagram_com ==
  << [name |-> <<"A","c","c","o","u","n","t"," ","M","a","n","a","g","e","m","e","n","t">>,
      description |-> <<"M","a","n","a","g","e"," ","y","o","u","r"," ","I","n","s","t","a","g","r","a","m"," ","p","r","o","f","i","l","e",","," ","p","r","i","v","a","c","y"," ","s","e","t","t","i","n","g","s",","," ","a","n","d"," ","a","c","c","o","u","n","t"," ","s","e","c","u","r","i","t","y">>],
     [name |-> <<"C","o","n","t","e","n","t"," ","C","r","e","a","t","i","o","n">>,
      description |-> <<"C","r","e","a","t","e"," ","a","n","d"," ","s","h","a","r","e"," ","p","o","s","t","s",","," ","s","t","o","r","i","e","s",","," ","r","e","e","l","s",","," ","a","n","d"," ","I","G","T","V"," ","v","i","d","e","o","s">>],
     [name |-> <<"S","o","c","i","a","l"," ","F","e","a","t","u","r","e","s">>,
      description |-> <<"F","o","l","l","o","w"," ","u","s","e","r","s",","," ","l","i","k","e"," ","p","o","s","t","s",","," ","c","o","m","m","e","n","t",","," ","a","n","d"," ","u","s","e"," ","d","i","r","e","c","t"," ","m","e","s","s","a","g","i","n","g">>],
     [name |-> <<"B","u","s","i","n","e","s","s"," ","T","o","o","l","s">>,
      description |-> <<"I","n","s","t","a","g","r","a","m"," ","f","o","r"," ","B","u","s","i","n","e","s","s"," ","f","e","a","t","u","r","e","s",","," ","a","n","a","l","y","t","i","c","s",","," ","a","n","d"," ","a","d","v","e","r","t","i","s","i","n","g">>],
     [name |-> <<"S","a","f","e","t","y"," ","&"," ","P","r","i","v","a","c","y">>,
      description |-> <<"B","l","o","c","k"," ","u","s","e","r","s",","," ","r","e","p","o","r","t"," ","c","o","n","t","e","n","t",","," ","a","n","d"," ","m","a","n","a","g","e"," ","p","r","i","v","a","c","y"," ","s","e","t","t","i","n","g","s">>] >>

\* domain_modules['neo.space']['modules']  (line 473)
modules_neo_space ==
  << [name |-> <<"W","o","r","k","s","p","a","c","e"," ","M","a","n","a","g","e","m","e","n","t">>,
      description |-> <<"C","r","e","a","t","e"," ","a","n","d"," ","o","r","g","a","n","i","z","e"," ","y","o","u","r"," ","N","e","o"," ","w","o","r","k","s","p","a","c","e"," ","a","n","d"," ","p","r","o","j","e","c","t","s">>],
     [name |-> <<"C","o","l","l","a","b","o","r","a","t","i","o","n"," ","T","o","o","l","s">>,
      description |-> <<"S","h","a","r","e"," ","f","i","l","e","s",","," ","c","o","l","l","a","b","o","r","a","t","e"," ","w","i","t","h"," ","t","e","a","m"," ","m","e","m","b","e","r","s",","," ","a","n","d"," ","m","a","n","a","g","e"," ","p","e","r","m","i","s","s","i","o","n","s">>],
     [name |-> <<"F","i","l","e"," ","O","r","g","a","n","i","z","a","t","i","o","n">>,
      description |-> <<"U","p","l","o","a","d",","," ","o","r","g","a","n","i","z","e",","," ","a","n","d"," ","m","a","n","a","g","e"," ","f","i","l","e","s"," ","a","n","d"," ","f","o","l","d","e","r","s">>],
     [name |-> <<"I","n","t","e","g","r","a","t","i","o","n"," ","F","e","a","t","u","r","e","s">>,
      description |-> <<"C","o","n","n","e","c","t"," ","w","i","t","h"," ","e","x","t","e","r","n","a","l"," ","t","o","o","l","s"," ","a","n","d"," ","s","e","r","v","i","c","e","s">>],
     [name |-> <<"A","c","c","o","u","n","t"," ","S","e","t","t","i","n","g","s">>,
      description |-> <<"M","a","n","a","g","e"," ","y","o","u","r"," ","N","e","o"," ","a","c","c","o","u","n","t",","," ","b","i","l","l","i","n","g",","," ","a","n","d"," ","p","r","e","f","e","r","e","n","c","e","s">>] >>

\* domain_modules['github.com']['modules']  (line 482)
modules_github_com ==
  << [name |-> <<"R","e","p","o","s","i","t","o","r","y"," ","M","a","n","a","g","e","m","e","n","t">>,
      description |-> <<"C","r","e","a","t","e",","," ","c","l","o","n","e",","," ","a","n","d"," ","m","a","n","a","g","e"," ","G","i","t"," ","r","e","p","o","s","i","t","o","r","i","e","s">>],
     [name |-> <<"C","o","d","e"," ","C","o","l","l","a","b","o","r","a","t","i","o","n">>,
      description |-> <<"P","u","l","l"," ","r","e","q","u","e","s","t","s",","," ","c","o","d","e"," ","r","e","v","i","e","w","s",","," ","a","n","d"," ","b","r","a","n","c","h"," ","m","a","n","a","g","e","m","e","n","t">>],
     [name |-> <<"I","s","s","u","e"," ","T","r","a","c","k","i","n","g">>,
      description |-> <<"C","r","e","a","t","e"," ","a","n","d"," ","m","a","n","a","g","e"," ","i","s","s","u","e","s",","," ","b","u","g","s",","," ","a","n","d"," ","f","e","a","t","u","r","e"," ","r","e","q","u","e","s","t","s">>],
     [name |-> <<"A","c","t","i","o","n","s"," ","&"," ","C","I","/","C","D">>,
      description |-> <<"A","u","t","o","m","a","t","e","d"," ","w","o","r","k","f","l","o","w","s"," ","a","n","d"," ","c","o","n","t","i","n","u","o","u","s"," ","i","n","t","e","g","r","a","t","i","o","n">>],
     [name |-> <<"P","r","o","j","e","c","t"," ","M","a","n","a","g","e","m","e","n","t">>,
      description |-> <<"P","r","o","j","e","c","t"," ","b","o","a","r","d","s",","," ","m","i","l","e","s","t","o","n","e","s",","," ","a","n","d"," ","t","e","a","m"," ","c","o","l","l","a","b","o","r","a","t","i","o","n">>] >>

\* domain_modules, in dict order
domain_modules ==
  << [key |-> <<"d","i","s","c","o","r","d",".","c","o","m">>, modules |-> modules_discord_com],
     [key |-> <<"i","n","s","t","a","g","r","a","m",".","c","o","m">>, modules |-> modules_instagram_com],
     [key |-> <<"n","e","o",".","s","p","a","c","e">>, modules |-> modules_neo_space],
     [key |-> <<"g","i","t","h","u","b",".","c","o","m">>, modules |-> modules_github_com] >>

\* path_modules['help']  (line 499)
path_modules_help ==
  << [name |-> <<"G","e","t","t","i","n","g"," ","S","t","a","r","t","e","d">>,
      description |-> <<"B","a","s","i","c"," ","s","e","t","u","p"," ","a","n","d"," ","i","n","i","t","i","a","l"," ","c","o","n","f","i","g","u","r","a","t","i","o","n"," ","g","u","i","d","e">>],
     [name |-> <<"A","c","c","o","u","n","t"," ","M","a","n","a","g","e","m","e","n","t">>,
      description |-> <<"U","s","e","r"," ","a","c","c","o","u","n","t"," ","c","r","e","a","t","i","o","n",","," ","s","e","t","t","i","n","g","s",","," ","a","n","d"," ","p","r","o","f","i","l","e"," ","m","a","n","a","g","e","m","e","n","t">>],
     [name |-> <<"F","e","a","t","u","r","e","s"," ","O","v","e","r","v","i","e","w">>,
      description |-> <<"C","o","r","e"," ","f","e","a","t","u","r","e","s"," ","a","n","d"," ","f","u","n","c","t","i","o","n","a","l","i","t","y"," ","e","x","p","l","a","n","a","t","i","o","n">>],
     [name |-> <<"T","r","o","u","b","l","e","s","h","o","o","t","i","n","g">>,
      description |-> <<"C","o","m","m","o","n"," ","i","s","s","u","e","s"," ","a","n","d"," ","t","h","e","i","r"," ","s","o","l","u","t","i","o","n","s">>],
     [name |-> <<"C","o","n","t","a","c","t"," ","S","u","p","p","o","r","t">>,
      description |-> <<"H","o","w"," ","t","o"," ","r","e","a","c","h"," ","c","u","s","t","o","m","e","r"," ","s","u","p","p","o","r","t"," ","a","n","d"," ","g","e","t"," ","a","s","s","i","s","t","a","n","c","e">>] >>

\* path_modules['support']  (line 506)
path_modules_support ==
  << [name |-> <<"T","e","c","h","n","i","c","a","l"," ","S","u","p","p","o","r","t">>,
      description |-> <<"T","e","c","h","n","i","c","a","l"," ","i","s","s","u","e","s",","," ","b","u","g","s",","," ","a","n","d"," ","s","y","s","t","e","m"," ","p","r","o","b","l","e","m","s">>],
     [name |-> <<"B","i","l","l","i","n","g"," ","&"," ","P","a","y","m","e","n","t","s">>,
      description |-> <<"P","a","y","m","e","n","t"," ","i","s","s","u","e","s",","," ","b","i","l","l","i","n","g"," ","q","u","e","s","t","i","o","n","s",","," ","a","n","d"," ","s","u","b","s","c","r","i","p","t","i","o","n"," ","m","a","n","a","g","e","m","e","n","t">>],
     [name |-> <<"A","c","c","o","u","n","t"," ","R","e","c","o","v","e","r","y">>,
      description |-> <<"P","a","s","s","w","o","r","d"," ","r","e","s","e","t",","," ","a","c","c","o","u","n","t"," ","a","c","c","e","s","s",","," ","a","n","d"," ","s","e","c","u","r","i","t","y"," ","i","s","s","u","e","s">>],
     [name |-> <<"F","e","a","t","u","r","e"," ","R","e","q","u","e","s","t","s">>,
      description |-> <<"S","u","g","g","e","s","t"," ","n","e","w"," ","f","e","a","t","u","r","e","s"," ","a","n","d"," ","i","m","p","r","o","v","e","m","e","n","t","s">>],
     [name |-> <<"D","o","c","u","m","e","n","t","a","t","i","o","n">>,
      description |-> <<"U","s","e","r"," ","g","u","i","d","e","s",","," ","t","u","t","o","r","i","a","l","s",","," ","a","n","d"," ","r","e","f","e","r","e","n","c","e"," ","m","a","t","e","r","i","a","l","s">>] >>

\* path_modules['docs']  (line 513)
path_modules_docs ==
  << [name |-> <<"A","P","I"," ","D","o","c","u","m","e","n","t","a","t","i","o","n">>,
      description |-> <<"C","o","m","p","l","e","t","e"," ","A","P","I"," ","r","e","f","e","r","e","n","c","e"," ","a","n","d"," ","i","n","t","e","g","r","a","t","i","o","n"," ","g","u","i","d","e","s">>],
     [name |-> <<"D","e","v","e","l","o","p","e","r"," ","T","o","o","l","s">>,
      description |-> <<"S","D","K","s",","," ","l","i","b","r","a","r","i","e","s",","," ","a","n","d"," ","d","e","v","e","l","o","p","m","e","n","t"," ","r","e","s","o","u","r","c","e","s">>],
     [name |-> <<"G","e","t","t","i","n","g"," ","S","t","a","r","t","e","d"," ","G","u","i","d","e">>,
      description |-> <<"Q","u","i","c","k"," ","s","t","a","r","t"," ","t","u","t","o","r","i","a","l"," ","a","n","d"," ","b","a","s","i","c"," ","s","e","t","u","p">>],
     [name |-> <<"A","d","v","a","n","c","e","d"," ","F","e","a","t","u","r","e","s">>,
      description |-> <<"A","d","v","a","n","c","e","d"," ","f","u","n","c","t","i","o","n","a","l","i","t","y"," ","a","n","d"," ","c","o","n","f","i","g","u","r","a","t","i","o","n"," ","o","p","t","i","o","n","s">>],
     [name |-> <<"E","x","a","m","p","l","e","s"," ","&"," ","T","u","t","o","r","i","a","l","s">>,
      description |-> <<"C","o","d","e"," ","e","x","a","m","p","l","e","s"," ","a","n","d"," ","s","t","e","p","-","b","y","-","s","t","e","p"," ","t","u","t","o","r","i","a","l","s">>] >>

\* path_modules, in dict order
path_modules ==
  << [key |-> <<"h","e","l","p">>, modules |-> path_modules_help],
     [key |-> <<"s","u","p","p","o","r","t">>, modules |-> path_modules_support],
     [key |-> <<"d","o","c","s">>, modules |-> path_modules_docs] >>

\* line 529
generic_help_modules ==
  << [name |-> <<"U","s","e","r"," ","G","u","i","d","e">>,
      description |-> <<"C","o","m","p","r","e","h","e","n","s","i","v","e"," ","u","s","e","r"," ","d","o","c","u","m","e","n","t","a","t","i","o","n"," ","a","n","d"," ","g","u","i","d","e","s">>],
     [name |-> <<"F","A","Q">>,
      description |-> <<"F","r","e","q","u","e","n","t","l","y"," ","a","s","k","e","d"," ","q","u","e","s","t","i","o","n","s"," ","a","n","d"," ","c","o","m","m","o","n"," ","s","o","l","u","t","i","o","n","s">>],
     [name |-> <<"G","e","t","t","i","n","g"," ","S","t","a","r","t","e","d">>,
      description |-> <<"I","n","i","t","i","a","l"," ","s","e","t","u","p"," ","a","n","d"," ","b","a","s","i","c"," ","u","s","a","g","e"," ","i","n","s","t","r","u","c","t","i","o","n","s">>],
     [name |-> <<"A","d","v","a","n","c","e","d"," ","F","e","a","t","u","r","e","s">>,
      description |-> <<"A","d","v","a","n","c","e","d"," ","f","u","n","c","t","i","o","n","a","l","i","t","y"," ","a","n","d"," ","c","o","n","f","i","g","u","r","a","t","i","o","n">>],
     [name |-> <<"C","o","n","t","a","c","t"," ","S","u","p","p","o","r","t">>,
      description |-> <<"C","u","s","t","o","m","e","r"," ","s","u","p","p","o","r","t"," ","a","n","d"," ","a","s","s","i","s","t","a","n","c","e"," ","o","p","t","i","o","n","s">>] >>

\* line 540
ultimate_modules(domain) ==
  << [name |-> <<"P","l","a","t","f","o","r","m"," ","O","v","e","r","v","i","e","w">>,
      description |-> <<"G","e","n","e","r","a","l"," ","i","n","f","o","r","m","a","t","i","o","n"," ","a","b","o","u","t"," ">> \o domain \o <<" ","p","l","a","t","f","o","r","m"," ","a","n","d"," ","s","e","r","v","i","c","e","s">>],
     [name |-> <<"U","s","e","r"," ","A","c","c","o","u","n","t">>,
      description |-> <<"A","c","c","o","u","n","t"," ","m","a","n","a","g","e","m","e","n","t",","," ","s","e","t","t","i","n","g","s",","," ","a","n","d"," ","p","r","o","f","i","l","e"," ","c","o","n","f","i","g","u","r","a","t","i","o","n">>],
     [name |-> <<"C","o","r","e"," ","F","e","a","t","u","r","e","s">>,
      description |-> <<"M","a","i","n"," ","f","e","a","t","u","r","e","s"," ","a","n","d"," ","f","u","n","c","t","i","o","n","a","l","i","t","y"," ","o","f"," ","t","h","e"," ","p","l","a","t","f","o","r","m">>],
     [name |-> <<"S","e","t","t","i","n","g","s"," ","&"," ","P","r","e","f","e","r","e","n","c","e","s">>,
      description |-> <<"C","u","s","t","o","m","i","z","e"," ","y","o","u","r"," ","e","x","p","e","r","i","e","n","c","e"," ","a","n","d"," ","m","a","n","a","g","e"," ","p","r","e","f","e","r","e","n","c","e","s">>],
     [name |-> <<"H","e","l","p"," ","&"," ","S","u","p","p","o","r","t">>,
      description |-> <<"G","e","t"," ","h","e","l","p",","," ","c","o","n","t","a","c","t"," ","s","u","p","p","o","r","t",","," ","a","n","d"," ","f","i","n","d"," ","r","e","s","o","u","r","c","e","s">>] >>

\* index of the first entry of table whose key is contained in s, 0 when none
FirstKeyIn(table, s) == Least({n \in 1..Len(table) : In(table[n].key, s)})

\* d, p: the first domain key in the domain and the first path key in the
\* path, 0 when there is none
choose_modules(domain, d, p) ==
  IF d # 0 THEN domain_modules[d].modules
  ELSE IF p # 0 THEN path_modules[p].modules
  ELSE IF \E keyword \in {<<"s","u","p","p","o","r","t">>, <<"h","e","l","p">>, <<"d","o","c","s">>} : In(keyword, domain)
    THEN generic_help_modules
  ELSE ultimate_modules(domain)

select_modules(domain, path) ==
  choose_modules(domain, FirstKeyIn(domain_modules, domain), FirstKeyIn(path_modules, path))

fallback_for(parsed) ==
  IF parsed.exc
    THEN [exc |-> TRUE, modules |-> << >>]
    ELSE [exc |-> FALSE, modules |-> select_modules(lower(parsed.netloc), lower(parsed.path))]

\* generate_fallback_content(url)['modules']; exc when urlparse(url) raises
generate_fallback_content(url) == fallback_for(urlparse(url))

(***************************************************************************)
(* Text Quality Filter: is_content_meaningful.                             *)
(***************************************************************************)
\* the threshold on len(text.strip())
MinMeaningfulLen == 20

\* the ratio tests, on the counts
quality(alphanumeric_count, total_count, words, unique_words) ==
  \* alphanumeric_count / total_count < 0.6
  IF 10 * alphanumeric_count < 6 * total_count THEN FALSE
  \* len(words) > 10 and len(unique_words) / len(words) < 0.3
  ELSE IF words > 10 /\ 10 * unique_words < 3 * words THEN FALSE
  ELSE TRUE

\* where the words of text.split() start: the maximal runs of characters
\* that are no whitespace
word_starts(text) ==
  {b \in 1..Len(text) : ~isspace(text[b]) /\ (b = 1 \/ isspace(text[b - 1]))}

\* the word of text.split() that starts at position b
word_at(text, b) ==
  SubSeq(text, b, CHOOSE e \in b..Len(text) :
                    /\ e = Len(text) \/ isspace(text[e + 1])
                    /\ \A j \in b..e : ~isspace(text[j]))

\* len(words) and len(set(words)) for words = text.split()
word_quality(alphanumeric_count, total_count, text, starts) ==
  quality(alphanumeric_count, total_count, Cardinality(starts),
          Cardinality({word_at(text, b) : b \in starts}))

\* a variant of is_content_meaningful that measures the text as it is
is_content_meaningful_untrimmed(text) ==
  IF text = << >> \/ Len(text) < MinMeaningfulLen THEN FALSE
  ELSE word_quality(Cardinality({n \in 1..Len(text) : isalnum(text[n]) \/ isspace(text[n])}),
                    Len(text), text, word_starts(text))

is_content_meaningful(text) ==
  IF text = << >> \/ Len(strip(text)) < MinMeaningfulLen THEN FALSE
  ELSE word_quality(Cardinality({n \in 1..Len(text) : isalnum(text[n]) \/ isspace(text[n])}),
                    Len(text), text, word_starts(text))

(***************************************************************************)
(* Main-Content Extractor: clean_text and extract_main_content.            *)
(* A parsed document is a record                                           *)
(*   els     : its elements in document order, each [name, class, id,      *)
(*             role, text] where text is what                              *)
(*             get_text(separator="\n", strip=True) yields for it,         *)
(*   body    : [present, text] for soup.body,                              *)
(*   anchors : the href values of find_all("a", href=True), in order.      *)
(***************************************************************************)
strip_lines(lines) == [n \in 1..Len(lines) |-> strip(lines[n])]

clean_text(text) ==
  IF text = << >> THEN << >>
  ELSE join(<<"\n">>, SelectSeq(strip_lines(split_lines(text)), LAMBDA line : line # << >>))

\* the keyword arguments of the soup.find calls, in the order tried
candidates ==
  << [attr |-> "name", value |-> <<"m","a","i","n">>],
     [attr |-> "name", value |-> <<"a","r","t","i","c","l","e">>],
     [attr |-> "role", value |-> <<"m","a","i","n">>],
     [attr |-> "class_", value |-> <<"h","e","l","p","-","c","e","n","t","e","r">>],
     [attr |-> "class_", value |-> <<"s","u","p","p","o","r","t">>],
     [attr |-> "class_", value |-> <<"d","o","c","s">>],
     [attr |-> "class_", value |-> <<"d","o","c","u","m","e","n","t","a","t","i","o","n">>],
     [attr |-> "class_", value |-> <<"d","o","c","-","c","o","n","t","e","n","t">>],
     [attr |-> "class_", value |-> <<"c","o","n","t","e","n","t">>],
     [attr |-> "class_", value |-> <<"p","a","g","e","-","c","o","n","t","e","n","t">>],
     [attr |-> "class_", value |-> <<"e","n","t","r","y","-","c","o","n","t","e","n","t">>],
     [attr |-> "class_", value |-> <<"p","o","s","t","-","c","o","n","t","e","n","t">>],
     [attr |-> "class_", value |-> <<"c","o","n","t","a","i","n","e","r">>],
     [attr |-> "class_", value |-> <<"w","r","a","p","p","e","r">>],
     [attr |-> "id", value |-> <<"c","o","n","t","e","n","t">>],
     [attr |-> "id", value |-> <<"m","a","i","n","-","c","o","n","t","e","n","t">>],
     [attr |-> "id", value |-> <<"d","o","c","-","c","o","n","t","e","n","t">>],
     [attr |-> "id", value |-> <<"m","a","i","n">>],
     [attr |-> "class_", value |-> <<"u","i","C","o","n","t","e","x","t","u","a","l","L","a","y","e","r","P","o","s","i","t","i","o","n","e","r">>],
     [attr |-> "class_", value |-> <<"m","a","r","k","d","o","w","n","-","b","o","d","y">>],
     [attr |-> "class_", value |-> <<"w","i","k","i","-","c","o","n","t","e","n","t">>],
     [attr |-> "class_", value |-> <<"b","o","d","y">>],
     [attr |-> "class_", value |-> <<"d","o","c","u","m","e","n","t">>],
     [attr |-> "class_", value |-> <<"a","r","t","i","c","l","e","-","b","o","d","y">>],
     [attr |-> "class_", value |-> <<"s","e","c","t","i","o","n","-","c","o","n","t","e","n","t">>] >>

\* does element el match the keyword argument of soup.find
Matches(el, candidate) ==
  CASE candidate.attr = "name"   -> el.name = candidate.value
    [] candidate.attr = "role"   -> el.role = candidate.value
    [] candidate.attr = "id"     -> el.id = candidate.value
    [] candidate.attr = "class_" ->
         \/ candidate.value \in Range(el.class)
         \/ (el.class # << >> /\ join(<<" ">>, el.class) = candidate.value)

\* soup.find(**candidate): index of the first matching element, 0 for None
find(soup, candidate) ==
  Least({n \in 1..Len(soup.els) : Matches(soup.els[n], candidate)})

content_tags == {<<"d","i","v">>, <<"s","e","c","t","i","o","n">>, <<"a","r","t","i","c","l","e">>, <<"m","a","i","n">>, <<"a","s","i","d","e">>}
exclude_classes == {<<"n","a","v">>, <<"n","a","v","i","g","a","t","i","o","n">>, <<"h","e","a","d","e","r">>, <<"f","o","o","t","e","r">>, <<"s","i","d","e","b","a","r">>, <<"m","e","n","u">>, <<"b","r","e","a","d","c","r","u","m","b">>}
exclude_ids == {<<"n","a","v">>, <<"n","a","v","i","g","a","t","i","o","n">>, <<"h","e","a","d","e","r">>, <<"f","o","o","t","e","r">>, <<"s","i","d","e","b","a","r">>, <<"m","e","n","u">>}

\* Strategy 1 threshold
MinNamedLen == 100
\* Strategy 2 threshold
MinBlockLen == 200
\* Strategy 3 threshold
MinBodyLen == 100

\* the block is not skipped as navigation/header/footer
KeepBlock(block) ==
  /\ ~(block.class # << >> /\
       \E exc \in exclude_classes : In(exc, lower(join(<<" ">>, block.class))))
  /\ ~(block.id # << >> /\ \E exc \in exclude_ids : In(exc, lower(block.id)))

\* clean_text(el.get_text(separator="\n", strip=True)) of element n, "" for n = 0
el_text(soup, n) == IF n = 0 THEN << >> ELSE clean_text(soup.els[n].text)

\* Strategy 1: the candidates whose first match has enough text
named_candidates(soup) ==
  {c \in 1..Len(candidates) : Len(el_text(soup, find(soup, candidates[c]))) > MinNamedLen}

\* Strategy 2: the blocks kept, with their text length
meaningful_blocks(soup) ==
  {b \in {[n |-> n, len |-> Len(el_text(soup, n))] :
            n \in {m \in 1..Len(soup.els) :
                     soup.els[m].name \in content_tags /\ KeepBlock(soup.els[m])}} :
     b.len > MinBlockLen}

\* max(meaningful_blocks, key=lambda x: x[2]): the first of the largest
largest_block(blocks) ==
  CHOOSE b \in blocks : \A o \in blocks : o.len < b.len \/ (o.len = b.len /\ b.n <= o.n)

\* Strategy 3
body_text(body) ==
  IF body.present /\ Len(clean_text(body.text)) > MinBodyLen
    THEN clean_text(body.text)
    ELSE << >>

\* a variant of select_content that prefers the largest block
select_content_largest_first(soup, named, blocks) ==
  IF blocks # {} THEN el_text(soup, largest_block(blocks).n)
  ELSE IF named # {} THEN el_text(soup, find(soup, candidates[Least(named)]))
  ELSE body_text(soup.body)

select_content(soup, named, blocks) ==
  IF named # {} THEN el_text(soup, find(soup, candidates[Least(named)]))
  ELSE IF blocks # {} THEN el_text(soup, largest_block(blocks).n)
  ELSE body_text(soup.body)

extract_main_content(soup) ==
  select_content(soup, named_candidates(soup), meaningful_blocks(soup))

(***************************************************************************)
(* The environment: the URLs of the model and what the modelled sites      *)
(* serve.  Every page of a URL carries that URL's anchors; which content   *)
(* it carries, and whether a request fails, is chosen at each request.     *)
(***************************************************************************)
RootUrl == <<"h","t","t","p",":","/","/","a",".","i","o","/">>
DocsUrl == <<"h","t","t","p",":","/","/","a",".","i","o","/","d","o","c","s">>
XUrl    == <<"h","t","t","p",":","/","/","a",".","i","o","/","x">>
YUrl    == <<"h","t","t","p",":","/","/","a",".","i","o","/","y">>
ZUrl    == <<"h","t","t","p",":","/","/","a",".","i","o","/","z">>
PdfUrl  == <<"h","t","t","p",":","/","/","a",".","i","o","/","f",".","p","d","f">>
HelpUrl == <<"h","t","t","p",":","/","/","h","e","l","p",".","b",".","i","o","/">>
GitUrl  == <<"h","t","t","p","s",":","/","/","g","i","t","h","u","b",".","c","o","m","/","a","/","b">>
NotUrl  == <<"n","o","t"," ","a"," ","u","r","l">>
BadUrl  == <<"h","t","t","p",":","/","/","[">>

\* the href values of the anchors of the page at url, in document order
Anchors(url) ==
  CASE url = RootUrl -> << <<"/","d","o","c","s">>, <<"/","x">>, HelpUrl, <<"/","f",".","p","d","f">>, <<"/","d","o","c","s">>, <<"/","y">>, <<"/","z">> >>
    [] url = DocsUrl -> << RootUrl, <<"/","x">> >>
    [] url = XUrl    -> << <<>>, <<"/","y">> >>
    [] url = YUrl    -> << BadUrl >>
    [] url = HelpUrl -> << <<"/">>, <<"/","x">> >>
    [] OTHER         -> << >>

\* element texts, as get_text(separator="\n", strip=True) yields them
ProseText ==
  <<"I","n","s","t","a","l","l"," ","t","h","e"," ","p","a","c","k","a","g","e",","," ","t","h","e","n"," ","c","o","n","f","i","g","u","r","e"," ","y","o","u","r"," ","c","l","i","e","n","t"," ","t","o","k","e","n","\n","b","e","f","o","r","e"," ","c","a","l","l","i","n","g"," ","a","n","y"," ","e","n","d","p","o","i","n","t"," ","o","f"," ","t","h","i","s"," ","s","e","r","v","i","c","e"," ","f","r","o","m"," ","c","o","d","e"," ","o","r"," ","s","h","e","l","l",".">>
GarbledText == rep(<<"#","$","%","&","*">>, 24)
QuotingText ==
  <<"F","A","L","L","B","A","C","K"," ","C","O","N","T","E","N","T"," ","F","O","R",":"," ","a"," ","p","a","g","e"," ","m","e","a","n","s"," ","t","h","a","t"," ","e","x","t","r","a","c","t","i","o","n"," ","f","a","i","l","e","d","\n","a","n","d"," ","t","h","e"," ","l","i","s","t","e","d"," ","m","o","d","u","l","e","s"," ","w","e","r","e"," ","i","n","f","e","r","r","e","d"," ","f","r","o","m"," ","i","t","s"," ","a","d","d","r","e","s","s"," ","a","l","o","n","e",".">>
NavText == rep(<<"H","o","m","e"," ","D","o","c","s"," ","B","l","o","g"," ">>, 16)
ShortText == <<"L","o","a","d","i","n","g">>
MarkdownText ==
  <<" "," ","#"," ","G","u","i","d","e","\n","\n","I","n","s","t","a","l","l"," ","t","h","e"," ","p","a","c","k","a","g","e",","," ","t","h","e","n"," ","c","o","n","f","i","g","u","r","e"," ","y","o","u","r"," ","c","l","i","e","n","t"," ","t","o","k","e","n"," ","b","e","f","o","r","e"," ","c","a","l","l","i","n","g"," ","a","n","y"," ","e","n","d","p","o","i","n","t"," ","o","f"," ","t","h","i","s"," ","s","e","r","v","i","c","e",".","\n">>
\* texts a stubbed approach returns: 50 and 51 characters once trimmed
BoundaryText == <<" "," ">> \o rep(<<"f","i","v","e","5">>, 10) \o <<"\n">>
BriefText == rep(<<"f","i","v","e","5">>, 10) \o <<"!">>

Element(name, class, text) ==
  [name |-> name, class |-> class, id |-> << >>, role |-> << >>, text |-> text]

\* the content variants a site may serve
Variants == {"main", "garbled", "empty", "quoting"}

ElementsOf(v) ==
  CASE v = "main"    -> << Element(<<"d","i","v">>, << <<"s","i","d","e","b","a","r">> >>, NavText),
                           Element(<<"m","a","i","n">>, << >>, ProseText) >>
    [] v = "garbled" -> << Element(<<"d","i","v">>, << <<"c","o","n","t","e","n","t">> >>, GarbledText) >>
    [] v = "empty"   -> << Element(<<"d","i","v">>, << <<"n","a","v">> >>, NavText) >>
    [] v = "quoting" -> << Element(<<"a","r","t","i","c","l","e">>, << >>, QuotingText) >>

BodyOf(v) ==
  CASE v = "main"    -> [present |-> TRUE, text |-> NavText \o <<"\n">> \o ProseText]
    [] v = "garbled" -> [present |-> TRUE, text |-> GarbledText]
    [] v = "empty"   -> [present |-> TRUE, text |-> ShortText]
    [] v = "quoting" -> [present |-> TRUE, text |-> QuotingText]

\* A BeautifulSoup object is identified by the URL it was fetched from and the
\* content variant it carries; Dom gives its parsed tree.
Page(url, v) == [url |-> url, v |-> v]
Dom(soup) == [els |-> ElementsOf(soup.v), body |-> BodyOf(soup.v),
              anchors |-> Anchors(soup.url)]
None == [none |-> TRUE]

\* extract_main_content(soup), tabulated once per content variant
main_content_table ==
  [main    |-> extract_main_content(Dom(Page(<< >>, "main"))),
   garbled |-> extract_main_content(Dom(Page(<< >>, "garbled"))),
   empty   |-> extract_main_content(Dom(Page(<< >>, "empty"))),
   quoting |-> extract_main_content(Dom(Page(<< >>, "quoting")))]
MainContent(soup) == main_content_table[soup.v]

\* is_content_meaningful(text), tabulated once for the texts the sites serve
StrategyTexts == {main_content_table[v] : v \in Variants} \cup {MarkdownText, ShortText, BoundaryText, BriefText}
MeaningfulTexts == {t \in StrategyTexts : is_content_meaningful(t)}
IsMeaningful(text) ==
  IF text \in StrategyTexts THEN text \in MeaningfulTexts ELSE is_content_meaningful(text)

\* the content variants the page at url is served with
VariantsAt(url) ==
  CASE url = RootUrl -> {"main", "empty"}
    [] url = GitUrl  -> {"garbled", "empty"}
    [] url = XUrl    -> {"main", "garbled"}
    [] url = YUrl    -> {"main"}
    [] url = DocsUrl -> {"quoting", "main"}
    [] url = HelpUrl -> {"main"}
    [] url = HelpUrl \o <<"d","o","c","s">> -> {"main"}
    [] OTHER         -> {"garbled"}

\* the answers to session.get(url): it raises, a 403 block page, or a page
Responses(url) ==
  IF urlparse(url).exc
    THEN {[raised |-> TRUE, status_code |-> 0, soup |-> None]}
    ELSE {[raised |-> TRUE, status_code |-> 0, soup |-> None],
          [raised |-> FALSE, status_code |-> 403, soup |-> Page(url, "empty")]}
         \cup {[raised |-> FALSE, status_code |-> 200, soup |-> Page(url, v)] :
                 v \in VariantsAt(url)}

\* what get_dynamic_html(url) returns
Htmls(url) ==
  IF urlparse(url).exc
    THEN {[present |-> FALSE, soup |-> None]}
    ELSE {[present |-> FALSE, soup |-> None]}
         \cup {[present |-> TRUE, soup |-> Page(url, v)] : v \in VariantsAt(url)}

\* the URLs the scraping service has markdown for
ScrapedUrls == {XUrl, GitUrl}

\* what FirecrawlApp.scrape_url(url) does
Scrapes(url) ==
  LET s(available, raised, has_markdown, markdown, has_html) ==
        [available |-> available, raised |-> raised, has_markdown |-> has_markdown,
         markdown |-> markdown, has_html |-> has_html,
         soup |-> IF has_html THEN Page(url, "main") ELSE None]
  IN  {s(FALSE, FALSE, FALSE, << >>, FALSE),
       s(TRUE, TRUE, FALSE, << >>, FALSE),
       s(TRUE, FALSE, FALSE, << >>, TRUE),
       s(TRUE, FALSE, TRUE, ShortText, TRUE)}
      \cup IF url \in ScrapedUrls
             THEN {s(TRUE, FALSE, TRUE, MarkdownText, TRUE),
                   s(TRUE, FALSE, TRUE, MarkdownText, FALSE)}
             ELSE {}

\* the seed lists handed to crawl_and_extract
SeedUrls == {RootUrl, XUrl, YUrl, PdfUrl, NotUrl, BadUrl}
SeedLists == UNION {[1..n -> SeedUrls] : n \in 0..MaxSeeds}

\* the URLs handed to extract_content_with_guaranteed_fallback directly
DirectUrls == {GitUrl, DocsUrl, HelpUrl, BadUrl}

\* the URLs the wrapper is called with while the approaches are stubbed
StubUrls == {RootUrl, GitUrl}

(***************************************************************************)
(* What a call returns: exc is TRUE when it raises, otherwise (text, soup).*)
(* None is the absent document.                                            *)
(***************************************************************************)
Ret(text, soup) == [exc |-> FALSE, text |-> text, soup |-> soup]
Raise == [exc |-> TRUE, text |-> << >>, soup |-> None]

(***************************************************************************)
(* Acquisition strategies, each as a function of what the network, the     *)
(* browser or the scraping service answers.                                *)
(*   resp: [raised, status_code, soup]; raised when session.get raises     *)
(*   (timeout, connection reset); soup is BeautifulSoup(resp.text).        *)
(***************************************************************************)
\* resp.raise_for_status() raises
raise_for_status(resp) == resp.status_code >= 400 /\ resp.status_code < 600

basic_request_approach(resp) ==
  IF resp.raised \/ raise_for_status(resp) THEN Raise
  ELSE Ret(MainContent(resp.soup), resp.soup)

stealth_session_approach(resp) ==
  IF resp.raised \/ raise_for_status(resp) THEN Raise
  ELSE Ret(MainContent(resp.soup), resp.soup)

\* the acceptance threshold of try_multiple_approaches, advanced_stealth_approach
\* and try_alternative_urls: len(text.strip()) > 50
MinTextLen == 50
\* MAX attempts of advanced_stealth_approach: range(3)
MaxAttempts == 3

\* a variant of Accepts with the threshold off by one: >= 50
Accepts_at_least(text) == text # << >> /\ Len(strip(text)) >= MinTextLen

Accepts(text) == text # << >> /\ Len(strip(text)) > MinTextLen

\* the if of the loop body of try_multiple_approaches, r being what the
\* approach did: it raised, or it returned (text, soup)
accepted(r) == ~r.exc /\ Accepts(r.text)

\* a variant of returned that hands on what the last approach returned
returned_last(r) == IF r.exc THEN Ret(<< >>, None) ELSE Ret(r.text, r.soup)

\* what try_multiple_approaches returns when its loop ends with r
returned(r) == IF accepted(r) THEN Ret(r.text, r.soup) ELSE Ret(<< >>, None)

\* the attempt fetched a page and extracted text from it
attempt_with(attempt, text, soup) ==
  IF Accepts(text) THEN [do |-> "return", r |-> Ret(text, soup)]
  ELSE IF attempt = MaxAttempts - 1 THEN [do |-> "return", r |-> Ret(<< >>, None)]
  ELSE [do |-> "retry", r |-> Ret(<< >>, None)]

\* a variant of advanced_stealth_attempt that raises again on every attempt
advanced_stealth_attempt_reraising(attempt, resp) ==
  IF resp.raised \/ raise_for_status(resp)
    THEN [do |-> "return", r |-> Raise]
  ELSE attempt_with(attempt, MainContent(resp.soup), resp.soup)

\* one pass of the attempt loop of advanced_stealth_approach:
\* "return" leaves the function with r, "retry" goes on to the next attempt
advanced_stealth_attempt(attempt, resp) ==
  IF resp.raised \/ raise_for_status(resp)
    THEN IF attempt = MaxAttempts - 1
           THEN [do |-> "return", r |-> Raise]
           ELSE [do |-> "retry", r |-> Raise]
  ELSE attempt_with(attempt, MainContent(resp.soup), resp.soup)

\* html: [present, soup], what get_dynamic_html returns (None when Selenium is
\* not available or the browser fails)
selenium_approach(html) ==
  IF html.present THEN Ret(MainContent(html.soup), html.soup)
  ELSE Ret(<< >>, None)

\* the markdown threshold of try_firecrawl_extraction
MinMarkdownLen == 100

\* a variant of try_firecrawl_extraction that parses an empty document when
\* the payload has no html
try_firecrawl_extraction_always_parsing(scrape) ==
  IF ~scrape.available THEN Ret(<< >>, None)
  ELSE IF scrape.raised THEN Ret(<< >>, None)
  ELSE IF /\ scrape.has_markdown
          /\ scrape.markdown # << >>
          /\ Len(strip(scrape.markdown)) > MinMarkdownLen
    THEN Ret(scrape.markdown, IF scrape.has_html THEN scrape.soup ELSE Page(<< >>, "empty"))
  ELSE Ret(<< >>, None)

\* scrape: [available, raised, has_markdown, markdown, has_html, soup]
try_firecrawl_extraction(scrape) ==
  IF ~scrape.available THEN Ret(<< >>, None)
  ELSE IF scrape.raised THEN Ret(<< >>, None)
  ELSE IF /\ scrape.has_markdown
          /\ scrape.markdown # << >>
          /\ Len(strip(scrape.markdown)) > MinMarkdownLen
    THEN Ret(scrape.markdown, IF scrape.has_html THEN scrape.soup ELSE None)
  ELSE Ret(<< >>, None)

firecrawl_approach(scrape) == try_firecrawl_extraction(scrape)

\* the path variants try_alternative_urls probes, in order
patterns_at(base_url) ==
      << base_url \o <<"/","h","c","/","e","n","-","u","s","/","c","a","t","e","g","o","r","i","e","s">>,
         base_url \o <<"/","h","e","l","p">>,
         base_url \o <<"/","d","o","c","s">>,
         base_url \o <<"/","s","u","p","p","o","r","t">>,
         base_url \o <<"/","k","b">>,
         base_url \o <<"/","h","c","/","e","n","-","u","s","/","s","e","c","t","i","o","n","s">>,
         base_url \o <<"/","h","c","/","c","a","t","e","g","o","r","i","e","s">>,
         base_url \o <<"/","e","n","-","u","s","/","s","u","p","p","o","r","t">> >>

base_url_of(parsed) == parsed.scheme \o <<":","/","/">> \o parsed.netloc

alternative_patterns(url) == patterns_at(base_url_of(urlparse(url)))

\* a variant of help_in that looks for 'help' only
help_in_help_only(domain) == In(<<"h","e","l","p">>, domain)

\* try_alternative_urls probes at all
help_in(domain) == In(<<"s","u","p","p","o","r","t">>, domain) \/ In(<<"h","e","l","p">>, domain)

is_help_domain(url) == help_in(lower(urlparse(url).netloc))

\* the probe fetched a page and extracted text from it
probe_with(text, soup) ==
  IF Accepts(text) THEN [do |-> "return", r |-> Ret(text, soup)]
  ELSE [do |-> "next", r |-> Ret(<< >>, None)]

\* one probe of try_alternative_urls
alternative_probe(resp) ==
  IF resp.raised THEN [do |-> "next", r |-> Ret(<< >>, None)]
  ELSE IF resp.status_code = 200 THEN probe_with(MainContent(resp.soup), resp.soup)
  ELSE [do |-> "next", r |-> Ret(<< >>, None)]

\* the names of the approaches of try_multiple_approaches, in order
approaches ==
  << "Basic Request", "Stealth Session", "Advanced Stealth",
     "Selenium Stealth", "Firecrawl Advanced", "Alternative URLs" >>

(***************************************************************************)
(* Guaranteed Extraction Wrapper.                                          *)
(***************************************************************************)
RECURSIVE render_modules(_, _)
\* the enumerate(fallback_data['modules'], 1) loop, from number i on
render_modules(modules, i) ==
  IF modules = << >> THEN << >>
  ELSE str(i) \o <<"."," ">> \o modules[1].name \o <<"\n">>
       \o <<" "," "," ","D","e","s","c","r","i","p","t","i","o","n",":"," ">> \o modules[1].description \o <<"\n","\n">>
       \o render_modules(Tail(modules), i + 1)

fallback_text(url, modules) ==
  <<"F","A","L","L","B","A","C","K"," ","C","O","N","T","E","N","T"," ","F","O","R",":"," ">> \o url \o <<"\n","\n">>
  \o <<"B","a","s","e","d"," ","o","n"," ","t","h","e"," ","U","R","L"," ","s","t","r","u","c","t","u","r","e"," ","a","n","d"," ","d","o","m","a","i","n",","," ","h","e","r","e"," ","a","r","e"," ","t","h","e"," ","l","i","k","e","l","y"," ","m","o","d","u","l","e","s",":","\n","\n">>
  \o render_modules(modules, 1)
  \o <<"\n","N","o","t","e",":"," ","T","h","i","s"," ","c","o","n","t","e","n","t"," ","w","a","s"," ","g","e","n","e","r","a","t","e","d"," ","a","s"," ","a"," ","f","a","l","l","b","a","c","k"," ","w","h","e","n"," ","d","i","r","e","c","t"," ","e","x","t","r","a","c","t","i","o","n"," ","f","a","i","l","e","d",".","\n">>
  \o <<"T","h","e"," ","s","i","t","e"," ","m","a","y"," ","h","a","v","e"," ","a","n","t","i","-","b","o","t"," ","p","r","o","t","e","c","t","i","o","n"," ","o","r"," ","r","e","q","u","i","r","e"," ","J","a","v","a","S","c","r","i","p","t"," ","r","e","n","d","e","r","i","n","g",".","\n">>
  \o <<"C","o","n","s","i","d","e","r"," ","u","s","i","n","g"," ","F","i","r","e","c","r","a","w","l"," ","A","P","I"," ","f","o","r"," ","b","e","t","t","e","r"," ","r","e","s","u","l","t","s"," ","w","i","t","h"," ","r","e","s","t","r","i","c","t","e","d"," ","s","i","t","e","s",".","\n">>

\* str(e) of the only exception the try block can raise
InvalidIPv6 == <<"I","n","v","a","l","i","d"," ","I","P","v","6"," ","U","R","L">>

error_text(url, e, modules) ==
  <<"E","X","T","R","A","C","T","I","O","N"," ","F","A","I","L","E","D"," ","F","O","R",":"," ">> \o url \o <<"\n","\n">>
  \o <<"E","r","r","o","r",":"," ">> \o e \o <<"\n","\n">>
  \o <<"G","e","n","e","r","a","t","e","d"," ","f","a","l","l","b","a","c","k"," ","m","o","d","u","l","e","s"," ","b","a","s","e","d"," ","o","n"," ","U","R","L"," ","a","n","a","l","y","s","i","s",":","\n","\n">>
  \o render_modules(modules, 1)

\* a variant of fallback_result that renders the text of the except branch
fallback_result_as_error(url, soup, fallback_data) ==
  IF fallback_data.exc THEN Raise
  ELSE Ret(error_text(url, InvalidIPv6, fallback_data.modules), soup)

\* a variant of fallback_result that returns no document with the fallback text
fallback_result_without_soup(url, soup, fallback_data) ==
  IF fallback_data.exc THEN Raise
  ELSE Ret(fallback_text(url, fallback_data.modules), None)

\* a variant of fallback_result that returns the document with no text
fallback_result_without_text(url, soup, fallback_data) ==
  IF fallback_data.exc THEN Raise
  ELSE Ret(<< >>, soup)

\* the fallback branch of the try block
fallback_result(url, soup, fallback_data) ==
  IF fallback_data.exc THEN Raise
  ELSE Ret(fallback_text(url, fallback_data.modules), soup)

\* the try block, given what try_multiple_approaches returned
guarded_body(url, result) ==
  IF result.exc THEN Raise
  ELSE IF result.text # << >> /\ IsMeaningful(result.text)
    THEN Ret(result.text, result.soup)
  ELSE fallback_result(url, result.soup, generate_fallback_content(url))

\* the except branch: e is str(e)
error_result(url, e, fallback_data) ==
  IF fallback_data.exc THEN Raise
  ELSE Ret(error_text(url, e, fallback_data.modules), None)

\* the try statement, given what its body did
guarded(url, tried) ==
  IF ~tried.exc THEN tried
  ELSE error_result(url, InvalidIPv6, generate_fallback_content(url))

\* extract_content_with_guaranteed_fallback(url), given what
\* try_multiple_approaches returned
extract_content_with_guaranteed_fallback(url, result) ==
  guarded(url, guarded_body(url, result))

(***************************************************************************)
(* State.                                                                  *)
(***************************************************************************)
VARIABLES
  entry,      \* what the caller invoked: crawl_and_extract ("crawl"), the
              \* wrapper ("direct"), or the wrapper with the six approach
              \* functions replaced by stubs ("stubbed")
  urls,       \* crawl_and_extract: the seed list
  max_depth,  \* crawl_and_extract: the depth bound
  seed,       \* crawl_and_extract: position of the for loop over urls
  visited,    \* crawl_and_extract: the visited set
  docs,       \* crawl_and_extract: the dict, as its items in insertion order
  stack,      \* the active calls of crawl, innermost first, each with its
              \* locals url, depth, text, soup, links_found and the position
              \* idx of the loop over soup.find_all("a", href=True)
  pc,         \* where control is
  arg,        \* the url of the extraction call in progress
  k,          \* try_multiple_approaches: index of the approach up next
  attempt,    \* advanced_stealth_approach: the loop variable
  probe,      \* try_alternative_urls: index of the pattern up next
  log,        \* the approaches invoked by the extraction call, each with
              \* whether it raised and the trimmed length of its text
  out,        \* what the approach invoked last returned
  orch,       \* what try_multiple_approaches returned
  ret,        \* what extract_content_with_guaranteed_fallback returned
  calls,      \* history: the (url, depth) of every extraction call of crawl
  debug,      \* number of debug HTML files written
  app         \* app.py: the locals of the processing run and the session state

vars == << entry, urls, max_depth, seed, visited, docs, stack, pc, arg, k, attempt,
           probe, log, out, orch, ret, calls, debug, app >>

crawlVars == << urls, max_depth, seed, visited, docs, stack, calls, debug >>
callVars == << arg, k, attempt, probe, log, out, orch, ret >>

\* the link cap of crawl: links_found >= 3
MaxLinks == 3

\* text, soup before anything was assigned to them
NoResult == Ret(<< >>, None)

\* a variant of Put that adds an item also for a key that is present
Put_appending(d, url, text) == Append(d, [url |-> url, text |-> text])

\* a variant of Put that puts the item of a new key in front
Put_in_front(d, url, text) ==
  IF \E n \in 1..Len(d) : d[n].url = url
    THEN [n \in 1..Len(d) |-> IF d[n].url = url THEN [url |-> url, text |-> text] ELSE d[n]]
    ELSE << [url |-> url, text |-> text] >> \o d

\* docs[url] = text
Put(d, url, text) ==
  IF \E n \in 1..Len(d) : d[n].url = url
    THEN [n \in 1..Len(d) |-> IF d[n].url = url THEN [url |-> url, text |-> text] ELSE d[n]]
    ELSE Append(d, [url |-> url, text |-> text])

\* a variant of invalid_url_text without the blank line
invalid_url_text_on_two_lines(url) ==
  <<"E","R","R","O","R",":"," ","I","n","v","a","l","i","d"," ","U","R","L"," ","f","o","r","m","a","t"," ","-"," ">> \o url \o <<"\n","P","l","e","a","s","e"," ","c","h","e","c","k"," ","t","h","e"," ","U","R","L"," ","a","n","d"," ","t","r","y"," ","a","g","a","i","n",".">>

\* the text recorded for a seed that is no valid URL
invalid_url_text(url) ==
  <<"E","R","R","O","R",":"," ","I","n","v","a","l","i","d"," ","U","R","L"," ","f","o","r","m","a","t"," ","-"," ">> \o url \o <<"\n","\n","P","l","e","a","s","e"," ","c","h","e","c","k"," ","t","h","e"," ","U","R","L"," ","a","n","d"," ","t","r","y"," ","a","g","a","i","n",".">>

\* app.py before a processing run: the session state of lines 40-43, with
\* processing_in_progress as st.session_state.get reads it (line 192), and
\* the locals of lines 233-236
Idle ==
  [ i |-> 0, all_results |-> << >>, processed_count |-> 0, success_count |-> 0,
    fallback_count |-> 0, extraction_results |-> None,
    processing_complete |-> FALSE, processing_in_progress |-> FALSE,
    shown |-> {} ]

Init ==
  /\ entry \in {"crawl", "direct", "stubbed"}
  /\ IF entry = "crawl"
       THEN /\ urls \in SeedLists
            /\ max_depth \in 0..MaxDepth
            /\ pc = "seeds"
            /\ arg = << >>
            /\ k = 0
       ELSE /\ urls = << >>
            /\ max_depth = 0
            /\ pc = "extract"
            /\ arg \in IF entry = "direct" THEN DirectUrls ELSE StubUrls
            /\ k = 1
  /\ seed = 1
  /\ visited = {}
  /\ docs = << >>
  /\ stack = << >>
  /\ attempt = 0
  /\ probe = 1
  /\ log = << >>
  /\ out = NoResult
  /\ orch = NoResult
  /\ ret = NoResult
  /\ calls = << >>
  /\ debug = 0
  /\ app = Idle

(***************************************************************************)
(* crawl(url, depth): the guard, and the entry into the extraction.        *)
(***************************************************************************)
\* a variant of crawl_returns_at_once that does not consult the skip patterns
crawl_returns_at_once_not_skipping(url, depth) ==
  url \in visited \/ depth > max_depth

\* a variant of crawl_returns_at_once that does not consult visited
crawl_returns_at_once_revisiting(url, depth) ==
  depth > max_depth \/ should_skip_url(url)

\* the first statement of crawl returns at once
crawl_returns_at_once(url, depth) ==
  url \in visited \/ depth > max_depth \/ should_skip_url(url)

\* crawl(url, depth) up to the call of the wrapper
EnterCrawl(url, depth) ==
  /\ visited' = visited \cup {url}
  /\ stack' = << [url |-> url, depth |-> depth, text |-> << >>, soup |-> None,
                  idx |-> 0, links_found |-> 0] >> \o stack
  /\ calls' = Append(calls, [url |-> url, depth |-> depth])
  /\ pc' = "extract"
  /\ arg' = url
  /\ k' = 1
  /\ attempt' = 0
  /\ probe' = 1
  /\ log' = << >>
  /\ out' = NoResult
  /\ orch' = NoResult
  /\ ret' = NoResult

\* the innermost crawl returns to its caller: the link loop of the crawl
\* below it (links_found += 1, next anchor) or the for loop over urls
ReturnFromCrawl ==
  /\ stack' = IF Len(stack) > 1
                THEN << [stack[2] EXCEPT !.links_found = @ + 1, !.idx = @ + 1] >>
                     \o SubSeq(stack, 3, Len(stack))
                ELSE << >>
  /\ pc' = IF Len(stack) > 1 THEN "links" ELSE "seeds"
  /\ seed' = IF Len(stack) > 1 THEN seed ELSE seed + 1

(***************************************************************************)
(* crawl_and_extract: the for loop over urls.                              *)
(***************************************************************************)
SeedInvalid ==
  /\ pc = "seeds" /\ seed <= Len(urls)
  /\ ~is_valid_url(urls[seed])
  /\ docs' = Put(docs, urls[seed], invalid_url_text(urls[seed]))
  /\ seed' = seed + 1
  /\ UNCHANGED << app, entry, urls, max_depth, visited, stack, pc, calls, debug >>
  /\ UNCHANGED callVars

SeedSkipped ==
  /\ pc = "seeds" /\ seed <= Len(urls)
  /\ is_valid_url(urls[seed])
  /\ crawl_returns_at_once(urls[seed], 0)
  /\ seed' = seed + 1
  /\ UNCHANGED << app, entry, urls, max_depth, visited, docs, stack, pc, calls, debug >>
  /\ UNCHANGED callVars

SeedCrawl ==
  /\ pc = "seeds" /\ seed <= Len(urls)
  /\ is_valid_url(urls[seed])
  /\ ~crawl_returns_at_once(urls[seed], 0)
  /\ EnterCrawl(urls[seed], 0)
  /\ UNCHANGED << app, entry, urls, max_depth, seed, docs, debug >>

ReturnDocs ==
  /\ pc = "seeds" /\ seed > Len(urls)
  /\ pc' = "returned"
  /\ UNCHANGED << app, entry, urls, max_depth, seed, visited, docs, stack, calls, debug >>
  /\ UNCHANGED callVars

(***************************************************************************)
(* try_multiple_approaches, one approach per step.                         *)
(***************************************************************************)
\* approach k returned or raised r: the rest of the loop body, and when the
\* loop ends the return of try_multiple_approaches
Conclude(r) ==
  /\ log' = Append(log, [name |-> approaches[k], raised |-> r.exc,
                          len |-> Len(strip(r.text))])
  /\ out' = r
  /\ attempt' = 0
  /\ probe' = 1
  /\ IF accepted(r) \/ k = Len(approaches)
       THEN /\ orch' = returned(r)
            /\ pc' = "orchestrated"
            /\ k' = k
       ELSE /\ k' = k + 1
            /\ UNCHANGED << orch, pc >>
  /\ UNCHANGED << app, entry, arg, ret >>
  /\ UNCHANGED crawlVars

\* a step of an approach that takes several: "return" ends it with step.r
Proceed(step) ==
  IF step.do = "return"
    THEN Conclude(step.r)
    ELSE /\ attempt' = IF k = 3 THEN attempt + 1 ELSE attempt
         /\ probe' = IF k = 6 THEN probe + 1 ELSE probe
         /\ UNCHANGED << app, entry, arg, k, log, out, orch, ret, pc >>
         /\ UNCHANGED crawlVars

\* approach number n is up next, and it is the function of the module
Running(n) == pc = "extract" /\ k = n /\ entry # "stubbed"

BasicRequest ==
  /\ Running(1)
  /\ \E resp \in Responses(arg) : Conclude(basic_request_approach(resp))

StealthSession ==
  /\ Running(2)
  /\ \E resp \in Responses(arg) : Conclude(stealth_session_approach(resp))

\* the headers built from urlparse(url) before the attempt loop raise for a
\* url that does not parse
AdvancedStealth ==
  /\ Running(3)
  /\ \E resp \in Responses(arg) :
       Proceed(IF resp.soup = None /\ urlparse(arg).exc
                 THEN [do |-> "return", r |-> Raise]
                 ELSE advanced_stealth_attempt(attempt, resp))

Selenium ==
  /\ Running(4)
  /\ \E html \in Htmls(arg) : Conclude(selenium_approach(html))

Firecrawl ==
  /\ Running(5)
  /\ \E scrape \in Scrapes(arg) : Conclude(firecrawl_approach(scrape))

\* what the probe of pattern number probe does, given the answer
probe_step(n, patterns, resp) ==
  IF alternative_probe(resp).do = "next" /\ n = Len(patterns)
    THEN [do |-> "return", r |-> Ret(<< >>, None)]
    ELSE alternative_probe(resp)

\* try_alternative_urls(url), one probe per step; patterns is << >> when the
\* domain is no help domain, parsed is urlparse(url)
alternative_step(parsed, patterns) ==
  IF parsed.exc THEN Conclude(Raise)
  ELSE IF ~help_in(lower(parsed.netloc)) THEN Conclude(Ret(<< >>, None))
  ELSE \E resp \in Responses(patterns[probe]) : Proceed(probe_step(probe, patterns, resp))

AlternativeUrls ==
  /\ Running(6)
  /\ alternative_step(urlparse(arg), alternative_patterns(arg))

\* what a stubbed approach function does when called for url
StubReturns(url) ==
  {Raise,
   Ret(<< >>, None),
   Ret(BoundaryText, Page(url, "empty")),
   Ret(BriefText, Page(url, "empty")),
   Ret(GarbledText, Page(url, "garbled")),
   Ret(ProseText, Page(url, "main")),
   Ret(ProseText, None)}

\* approach_func() of the loop body when the approach functions are stubs
Stubbed ==
  /\ pc = "extract" /\ entry = "stubbed"
  /\ \E r \in StubReturns(arg) : Conclude(r)

(***************************************************************************)
(* extract_content_with_guaranteed_fallback after try_multiple_approaches  *)
(* returned.                                                               *)
(***************************************************************************)
WrapperReturns ==
  /\ pc = "orchestrated"
  /\ ret' = extract_content_with_guaranteed_fallback(arg, orch)
  /\ pc' = "extracted"
  /\ UNCHANGED << app, entry, arg, k, attempt, probe, log, out, orch >>
  /\ UNCHANGED crawlVars

(***************************************************************************)
(* crawl after the wrapper returned: the record, the debug artifact and    *)
(* the link gate.                                                          *)
(***************************************************************************)
\* a variant of LinkGate that does not look for the two markers
LinkGate_ignoring_markers(text, soup, depth) ==
  /\ soup # None
  /\ depth < max_depth
  /\ text # << >>
  /\ IsMeaningful(text)

\* a variant of LinkGate that does not compare depth with max_depth
LinkGate_at_any_depth(text, soup, depth) ==
  /\ soup # None
  /\ text # << >>
  /\ ~In(<<"F","A","L","L","B","A","C","K"," ","C","O","N","T","E","N","T">>, text)
  /\ ~In(<<"E","X","T","R","A","C","T","I","O","N"," ","F","A","I","L","E","D">>, text)
  /\ IsMeaningful(text)

\* soup.find_all("a", href=True), as the href values
find_all_a(soup) == Anchors(soup.url)

\* the condition of the link loop
LinkGate(text, soup, depth) ==
  /\ soup # None
  /\ depth < max_depth
  /\ text # << >>
  /\ ~In(<<"F","A","L","L","B","A","C","K"," ","C","O","N","T","E","N","T">>, text)
  /\ ~In(<<"E","X","T","R","A","C","T","I","O","N"," ","F","A","I","L","E","D">>, text)
  /\ IsMeaningful(text)

\* the debug write is attempted
DebugGate(text, soup) == soup # None /\ text = << >>

\* the call of the wrapper is over: its locals are gone
ClearCall ==
  /\ arg' = << >>
  /\ k' = 0
  /\ attempt' = 0
  /\ probe' = 1
  /\ log' = << >>
  /\ out' = NoResult
  /\ orch' = NoResult
  /\ ret' = NoResult

\* the wrapper raised: nothing in crawl or crawl_and_extract catches it
ExtractionRaised ==
  /\ pc = "extracted"
  /\ ret.exc
  /\ pc' = "raised"
  /\ UNCHANGED << app, entry, urls, max_depth, seed, visited, docs, stack, calls, debug >>
  /\ UNCHANGED callVars

\* direct call: the wrapper returns to the caller
DirectReturn ==
  /\ pc = "extracted"
  /\ entry # "crawl"
  /\ ~ret.exc
  /\ pc' = "done"
  /\ UNCHANGED << app, entry, urls, max_depth, seed, visited, docs, stack, calls, debug >>
  /\ UNCHANGED callVars

Recorded ==
  /\ pc = "extracted"
  /\ entry = "crawl"
  /\ ~ret.exc
  /\ docs' = Put(docs, stack[1].url, ret.text)
  /\ \E written \in BOOLEAN :
       debug' = IF DebugGate(ret.text, ret.soup) /\ written THEN debug + 1 ELSE debug
  /\ IF LinkGate(ret.text, ret.soup, stack[1].depth)
       THEN /\ stack' = << [stack[1] EXCEPT !.text = ret.text, !.soup = ret.soup,
                                              !.idx = 1] >>
                        \o Tail(stack)
            /\ pc' = "links"
            /\ seed' = seed
       ELSE ReturnFromCrawl
  /\ ClearCall
  /\ UNCHANGED << app, entry, urls, max_depth, visited, calls >>

(***************************************************************************)
(* crawl: the loop over the anchors.                                       *)
(***************************************************************************)
\* the loop is over: no anchor left, or the break at links_found >= 3
LinkLoopEnd ==
  /\ pc = "links"
  /\ \/ stack[1].idx > Len(find_all_a(stack[1].soup))
     \/ stack[1].links_found >= MaxLinks
  /\ ReturnFromCrawl
  /\ UNCHANGED << app, entry, urls, max_depth, visited, docs, calls, debug >>
  /\ UNCHANGED callVars

\* a variant of InLoop without the break at links_found >= 3
InLoop_without_break ==
  /\ pc = "links"
  /\ stack[1].idx <= Len(find_all_a(stack[1].soup))

InLoop ==
  /\ pc = "links"
  /\ stack[1].idx <= Len(find_all_a(stack[1].soup))
  /\ stack[1].links_found < MaxLinks

\* a variant of same_netloc that compares the schemes
same_netloc_by_scheme(page, target) == target.scheme = page.scheme

\* the filter of the loop body; page and target are the parsed url and link
same_netloc(page, target) == target.netloc = page.netloc

\* a variant of Qualifies that does not compare the hosts
Qualifies_on_any_host(link, url) ==
  /\ is_valid_url(link)
  /\ link \notin visited
  /\ ~should_skip_url(link)

Qualifies(link, url) ==
  /\ is_valid_url(link)
  /\ same_netloc(urlparse(url), urlparse(link))
  /\ link \notin visited
  /\ ~should_skip_url(link)

\* one pass of the loop body; joined is urljoin(url, a['href'])
LinkStep(joined) ==
  IF joined.exc
    THEN \* urljoin raises: nothing catches it
         /\ pc' = "raised"
         /\ UNCHANGED << stack, visited, calls >>
         /\ UNCHANGED callVars
  ELSE IF ~Qualifies(joined.url, stack[1].url)
    THEN /\ stack' = << [stack[1] EXCEPT !.idx = @ + 1] >> \o Tail(stack)
         /\ UNCHANGED << visited, calls, pc >>
         /\ UNCHANGED callVars
  ELSE IF crawl_returns_at_once(joined.url, stack[1].depth + 1)
    THEN /\ stack' = << [stack[1] EXCEPT !.links_found = @ + 1, !.idx = @ + 1] >>
                     \o Tail(stack)
         /\ UNCHANGED << visited, calls, pc >>
         /\ UNCHANGED callVars
  ELSE \* crawl(link, depth + 1)
       EnterCrawl(joined.url, stack[1].depth + 1)

LinkExamined ==
  /\ InLoop
  /\ LinkStep(urljoin(stack[1].url, find_all_a(stack[1].soup)[stack[1].idx]))
  /\ UNCHANGED << app, entry, urls, max_depth, seed, docs, debug >>

Next ==
  \/ SeedInvalid \/ SeedSkipped \/ SeedCrawl \/ ReturnDocs
  \/ BasicRequest \/ StealthSession \/ AdvancedStealth
  \/ Selenium \/ Firecrawl \/ AlternativeUrls \/ Stubbed
  \/ WrapperReturns
  \/ ExtractionRaised \/ DirectReturn \/ Recorded
  \/ LinkLoopEnd \/ LinkExamined

Spec == Init /\ [][Next]_vars


\* crawl_and_extract alone: the runs of Spec that begin with a call of it
CrawlInit == Init /\ entry = "crawl"

\* the steps of those runs; the wrapper is called for valid URLs only and
\* raises for none of them, so ExtractionRaised is no step of a crawl
CrawlNext ==
  \/ SeedInvalid \/ SeedSkipped \/ SeedCrawl \/ ReturnDocs
  \/ BasicRequest \/ StealthSession \/ AdvancedStealth
  \/ Selenium \/ Firecrawl \/ AlternativeUrls
  \/ WrapperReturns
  \/ Recorded
  \/ LinkLoopEnd \/ LinkExamined

Crawl == CrawlInit /\ [][CrawlNext]_vars
(***************************************************************************)
(* The pure functions called on their own: is_content_meaningful,          *)
(* extract_main_content and generate_fallback_content, each applied once   *)
(* to an input drawn from a family of inputs.  entry names the function,   *)
(* arg holds the input and ret the result.                                 *)
(***************************************************************************)
\* most words of a text handed to is_content_meaningful
MaxWords == 20
\* most distinct words among them
MaxDistinct == 6

\* lead blanks, then a token of symbols characters '#' (if any), then words
\* words that cycle through distinct words, every two tokens one blank apart
BuiltText(lead, symbols, words, distinct) ==
  [n \in 1..lead |-> " "]
  \o [n \in 1..symbols |-> "#"]
  \o (IF symbols > 0 /\ words > 0 THEN <<" ">> ELSE << >>)
  \o join(<<" ">>, [n \in 1..words |-> << "w", LowerCase[((n - 1) % distinct) + 1] >>])

\* a text with what is known of it from the way it is built: its length
\* (chars), the number of its leading blanks (lead), of its characters that
\* are alphanumeric or whitespace (plain), of its tokens and of its distinct
\* tokens (unique)
Built(lead, symbols, words, distinct) ==
  [text |-> BuiltText(lead, symbols, words, distinct),
   chars |-> lead + symbols + (IF symbols > 0 /\ words > 0 THEN 1 ELSE 0)
               + 2 * words + (IF words > 0 THEN words - 1 ELSE 0),
   lead |-> lead,
   plain |-> lead + (IF symbols > 0 /\ words > 0 THEN 1 ELSE 0)
               + 2 * words + (IF words > 0 THEN words - 1 ELSE 0),
   tokens |-> words + (IF symbols > 0 THEN 1 ELSE 0),
   unique |-> (IF words < distinct THEN words ELSE distinct) + (IF symbols > 0 THEN 1 ELSE 0)]

\* the texts handed to is_content_meaningful
FilterInputs ==
  {Built(lead, symbols, words, distinct) :
     lead \in {0, 3}, symbols \in {0, 1, 8, 30},
     words \in 0..MaxWords, distinct \in 1..MaxDistinct}
  \cup {[text |-> rep(<<"a">>, 30), chars |-> 30, lead |-> 0, plain |-> 30,
          tokens |-> 1, unique |-> 1],
         [text |-> rep(rep(<<"#">>, 25), 40), chars |-> 1000, lead |-> 0, plain |-> 0,
          tokens |-> 1, unique |-> 1],
         Built(0, 0, 50, 1)}

\* most elements of a document handed to extract_main_content
MaxEls == 2

\* n times the character c
Filled(c, n) == [m \in 1..n |-> c]

\* an element with what is known of it from the way it is built: clean is its
\* normalized text, sel the numbers of the candidates of extract_main_content
\* that select it (1 main, 2 article, 9 class content, 14 class wrapper,
\* 18 id main), block whether it is a div/section/article/main/aside, and
\* hint the navigation word its class or id carries
Built_el(name, class, id, text, clean, sel, block, hint) ==
  [name |-> name, class |-> class, id |-> id, role |-> << >>, text |-> text,
   clean |-> clean, sel |-> sel, block |-> block, hint |-> hint]

NoHint == [in |-> "none", word |-> << >>]

\* the elements the documents are made of
ElementPool ==
  {Built_el(<<"m","a","i","n">>, << >>, << >>, Filled("m", 150), Filled("m", 150), {1}, TRUE, NoHint),
   Built_el(<<"m","a","i","n">>, << >>, << >>, Filled("n", 100), Filled("n", 100), {1}, TRUE, NoHint),
   Built_el(<<"d","i","v">>, << <<"s","i","d","e","b","a","r">> >>, << >>, Filled("s", 300), Filled("s", 300), {}, TRUE,
            [in |-> "class", word |-> <<"s","i","d","e","b","a","r">>]),
   Built_el(<<"d","i","v">>, << <<"c","o","n","t","e","n","t">>, <<"w","i","d","e">> >>, << >>, Filled("c", 101), Filled("c", 101), {9}, TRUE, NoHint),
   Built_el(<<"a","r","t","i","c","l","e">>, << >>, << >>, Filled("a", 240), Filled("a", 240), {2}, TRUE, NoHint),
   Built_el(<<"d","i","v">>, << >>, << >>, Filled("d", 250), Filled("d", 250), {}, TRUE, NoHint),
   Built_el(<<"s","e","c","t","i","o","n">>, << >>, << >>, Filled("e", 250), Filled("e", 250), {}, TRUE, NoHint),
   Built_el(<<"d","i","v">>, << >>, <<"b","r","e","a","d","c","r","u","m","b">>, Filled("b", 260), Filled("b", 260), {}, TRUE,
            [in |-> "id", word |-> <<"b","r","e","a","d","c","r","u","m","b">>]),
   Built_el(<<"d","i","v">>, << >>, <<"p","a","g","e","-","f","o","o","t","e","r">>, Filled("f", 280), Filled("f", 280), {}, TRUE,
            [in |-> "id", word |-> <<"f","o","o","t","e","r">>]),
   Built_el(<<"d","i","v">>, << <<"T","o","p","-","M","e","n","u">> >>, << >>, Filled("t", 270), Filled("t", 270), {}, TRUE,
            [in |-> "class", word |-> <<"m","e","n","u">>]),
   Built_el(<<"d","i","v">>, << >>, << >>, Filled("g", 200), Filled("g", 200), {}, TRUE, NoHint),
   Built_el(<<"s","p","a","n">>, << >>, << >>, Filled("p", 400), Filled("p", 400), {}, FALSE, NoHint),
   Built_el(<<"d","i","v">>, << >>, <<"m","a","i","n">>, Filled("i", 130), Filled("i", 130), {18}, TRUE, NoHint),
   Built_el(<<"d","i","v">>, << <<"w","r","a","p","p","e","r">> >>, << >>,
            <<" "," ">> \o Filled("w", 60) \o <<" ","\n","\n"," ">> \o Filled("x", 39) \o <<" ">>,
            Filled("w", 60) \o <<"\n">> \o Filled("x", 39), {14}, TRUE, NoHint)}

\* the documents handed to extract_main_content, soup.body absent or with
\* its text and its normalized text
ContentInputs ==
  {[els |-> els, body |-> body, anchors |-> << >>] :
     els \in UNION {[1..n -> ElementPool] : n \in 0..MaxEls},
     body \in {[present |-> FALSE, text |-> << >>, clean |-> << >>],
               [present |-> TRUE, text |-> Filled("y", 101), clean |-> Filled("y", 101)],
               [present |-> TRUE, text |-> <<" ">> \o Filled("z", 100) \o <<"\n">>, clean |-> Filled("z", 100)]}}

\* the URLs handed to generate_fallback_content
FallbackInputs ==
  {GitUrl, <<"h","t","t","p","s",":","/","/","G","i","t","H","u","b",".","c","o","m","/","h","e","l","p">>, <<"h","t","t","p",":","/","/","h","e","l","p",".","g","i","t","h","u","b",".","c","o","m","/","d","o","c","s">>,
   <<"h","t","t","p",":","/","/","i","n","s","t","a","g","r","a","m",".","c","o","m",".","d","i","s","c","o","r","d",".","c","o","m","/">>, <<"h","t","t","p",":","/","/","n","e","o",".","s","p","a","c","e","/","s","u","p","p","o","r","t">>,
   <<"h","t","t","p",":","/","/","a",".","i","o","/","h","e","l","p">>, <<"h","t","t","p",":","/","/","A",".","i","o","/","H","e","l","p">>, <<"h","t","t","p",":","/","/","a",".","i","o","/","s","u","p","p","o","r","t","/","d","o","c","s">>,
   <<"h","t","t","p",":","/","/","a",".","i","o","/","d","o","c","s","/","h","e","l","p">>, DocsUrl, <<"/","d","o","c","s">>, <<"h","t","t","p",":","/","/","h","e","l","p",".","b",".","i","o","/","d","o","c","s">>, HelpUrl,
   <<"h","t","t","p",":","/","/","d","o","c","s",".","b",".","i","o","/","x">>, <<"h","t","t","p",":","/","/","a",".","i","o","/","x","?","q","=","h","e","l","p">>, <<"g","i","t","h","u","b",".","c","o","m","/","a">>, RootUrl, NotUrl,
   BadUrl}

PureInit ==
  /\ entry \in {"filter", "content", "fallback"}
  /\ arg \in CASE entry = "filter" -> FilterInputs
             [] entry = "content" -> ContentInputs
             [] entry = "fallback" -> FallbackInputs
  /\ pc = "call"
  /\ ret = NoResult
  /\ urls = << >> /\ max_depth = 0 /\ seed = 1 /\ visited = {} /\ docs = << >>
  /\ stack = << >> /\ k = 0 /\ attempt = 0 /\ probe = 1 /\ log = << >>
  /\ out = NoResult /\ orch = NoResult /\ calls = << >> /\ debug = 0
  /\ app = Idle

\* the call raises (exc) or returns value
Outcome(exc, value) ==
  /\ ret' = [exc |-> exc, value |-> value]
  /\ pc' = "done"
  /\ UNCHANGED << app, entry, arg, k, attempt, probe, log, out, orch >>
  /\ UNCHANGED crawlVars

Filter ==
  /\ pc = "call" /\ entry = "filter"
  /\ Outcome(FALSE, is_content_meaningful(arg.text))

Content ==
  /\ pc = "call" /\ entry = "content"
  /\ Outcome(FALSE, extract_main_content(arg))

Fallback ==
  /\ pc = "call" /\ entry = "fallback"
  /\ Outcome(generate_fallback_content(arg).exc, generate_fallback_content(arg).modules)

PureNext == Filter \/ Content \/ Fallback

Pure == PureInit /\ [][PureNext]_vars

(***************************************************************************)
(* The acquisition strategies called on their own, step by step.  k is the *)
(* number of the approach, arg the url, out what the strategy returned or  *)
(* raised, and log the trace of what it did: sessions opened, requests     *)
(* sent, sleeps, and the browser created and quit.                         *)
(***************************************************************************)
\* the urls the strategies are called with
StrategyUrls == {RootUrl, GitUrl, HelpUrl, <<"h","t","t","p",":","/","/","S","u","p","p","o","r","t",".","b",".","i","o","/","x">>, BadUrl}

\* an entry of the trace: answer tells how a request was answered ("raised",
\* the status code 403, or the content variant of the page served), how long
\* a sleep is, or whether quit raised
Event(ev, at, answer) == [ev |-> ev, at |-> at, answer |-> answer]

\* session = get_stealth_session()
SessionOpened == Event("session", << >>, "")

\* time.sleep(random.uniform(lo, hi))
Slept(range) == Event("sleep", << >>, range)

\* session.get(url, ...) answered with resp
Got(url, resp) ==
  Event("get", url,
        IF resp.raised THEN "raised"
        ELSE IF resp.status_code = 200 THEN resp.soup.v ELSE "403")

StrategyInit ==
  /\ entry = "strategy"
  /\ k \in 1..Len(approaches)
  /\ arg \in StrategyUrls
  /\ pc = "call"
  /\ attempt = 0 /\ probe = 1 /\ log = << >> /\ out = NoResult
  /\ orch = NoResult /\ ret = NoResult
  /\ urls = << >> /\ max_depth = 0 /\ seed = 1 /\ visited = {} /\ docs = << >>
  /\ stack = << >> /\ calls = << >> /\ debug = 0 /\ app = Idle

\* the strategy goes on at pc' having done events
Step(events, to) ==
  /\ log' = log \o events
  /\ pc' = to
  /\ UNCHANGED << app, entry, k, arg, orch, ret >>
  /\ UNCHANGED crawlVars

\* the strategy returns or raises r having done events
Finish(events, r) ==
  /\ Step(events, "done")
  /\ out' = r
  /\ UNCHANGED << attempt, probe >>

BasicRequestCall ==
  /\ entry = "strategy" /\ pc = "call" /\ k = 1
  /\ \E resp \in Responses(arg) :
       Finish(<< SessionOpened, Got(arg, resp) >>, basic_request_approach(resp))

\* is_difficult_site(url) raises when urlparse(url) does
StealthSessionCall ==
  /\ entry = "strategy" /\ pc = "call" /\ k = 2
  /\ IF urlparse(arg).exc
       THEN Finish(<< SessionOpened >>, Raise)
       ELSE \E resp \in Responses(arg) :
              Finish(<< SessionOpened, Slept("2-5"), Got(arg, resp) >>,
                     stealth_session_approach(resp))

\* advanced_stealth_approach up to its attempt loop: the warm-up request in
\* its try block, and the header update, which raises when urlparse(url) does
SessionWarming ==
  /\ entry = "strategy" /\ pc = "call" /\ k = 3
  /\ IF urlparse(arg).exc
       THEN Finish(<< SessionOpened >>, Raise)
       ELSE /\ \E warm \in {[raised |-> TRUE, status_code |-> 0, soup |-> None],
                            [raised |-> FALSE, status_code |-> 403, soup |-> None]} :
                 Step(<< SessionOpened, Got(base_url_of(urlparse(arg)), warm) >>
                      \o (IF warm.raised THEN << >> ELSE << Slept("1-3") >>),
                      "attempts")
            /\ UNCHANGED << attempt, probe, out >>

\* one pass of the attempt loop of advanced_stealth_approach
StealthAttempt ==
  /\ entry = "strategy" /\ pc = "attempts"
  /\ \E resp \in Responses(arg) :
       IF advanced_stealth_attempt(attempt, resp).do = "return"
         THEN Finish(<< Slept("3-8"), Got(arg, resp) >>,
                     advanced_stealth_attempt(attempt, resp).r)
         ELSE /\ Step(<< Slept("3-8"), Got(arg, resp) >>
                      \o (IF advanced_stealth_attempt(attempt, resp).r.exc
                            THEN << Slept("5-10") >> ELSE << >>),
                      "attempts")
              /\ attempt' = attempt + 1
              /\ UNCHANGED << probe, out >>

\* the stages of get_dynamic_html at which it can fail: Selenium is not
\* available, the driver cannot be installed or created, a stealth script,
\* the navigation or the wait raises; "none" when it gets the page source
BrowserFailures(url) ==
  {"unavailable", "create", "script", "get"}
  \cup IF urlparse(url).exc THEN {} ELSE {"wait", "none"}

\* a variant of get_dynamic_html that quits the browser only when it fails
get_dynamic_html_quitting_on_failure(url, browser, v) ==
  [html |-> IF browser.fails = "none"
              THEN [present |-> TRUE, soup |-> Page(url, v)]
              ELSE [present |-> FALSE, soup |-> None],
   events |-> << Event("selenium", << >>, browser.fails) >>
              \o (IF browser.fails \in {"unavailable", "create"} THEN << >>
                  ELSE IF browser.fails = "none"
                    THEN << Event("driver", << >>, ""), Event("page_source", url, v) >>
                  ELSE << Event("driver", << >>, ""),
                          Event("quit", << >>,
                                IF browser.quit_raises THEN "raised" ELSE "ok") >>)]

\* get_dynamic_html(url): browser tells where it fails and whether
\* driver.quit() raises, v is the content variant the browser renders; the
\* trace begins with where it fails
get_dynamic_html(url, browser, v) ==
  [html |-> IF browser.fails = "none"
              THEN [present |-> TRUE, soup |-> Page(url, v)]
              ELSE [present |-> FALSE, soup |-> None],
   events |-> << Event("selenium", << >>, browser.fails) >>
              \o (IF browser.fails \in {"unavailable", "create"} THEN << >>
                  ELSE << Event("driver", << >>, "") >>
                       \o (IF browser.fails = "none"
                             THEN << Event("page_source", url, v) >> ELSE << >>)
                       \o << Event("quit", << >>,
                                   IF browser.quit_raises THEN "raised" ELSE "ok") >>)]

\* what selenium_approach does with what get_dynamic_html did
selenium_call(dynamic) == Finish(dynamic.events, selenium_approach(dynamic.html))

SeleniumCall ==
  /\ entry = "strategy" /\ pc = "call" /\ k = 4
  /\ \E fails \in BrowserFailures(arg), quit_raises \in BOOLEAN, v \in VariantsAt(arg) :
       selenium_call(get_dynamic_html(arg, [fails |-> fails, quit_raises |-> quit_raises], v))

\* the answer of the scraping service, as the trace keeps it
Scraped(url, scrape) ==
  Event("scrape", url,
        IF ~scrape.available THEN "unavailable"
        ELSE IF scrape.raised THEN "raised"
        ELSE IF ~scrape.has_markdown THEN "no markdown"
        ELSE IF scrape.markdown = ShortText
          THEN (IF scrape.has_html THEN "short, html" ELSE "short")
        ELSE (IF scrape.has_html THEN "long, html" ELSE "long"))

FirecrawlCall ==
  /\ entry = "strategy" /\ pc = "call" /\ k = 5
  /\ \E scrape \in Scrapes(arg) :
       Finish(<< Scraped(arg, scrape) >>, firecrawl_approach(scrape))

\* try_alternative_urls up to its loop: domain = urlparse(url).netloc.lower()
\* raises when urlparse(url) does
AlternativeDomain ==
  /\ entry = "strategy" /\ pc = "call" /\ k = 6
  /\ IF urlparse(arg).exc THEN Finish(<< >>, Raise)
     ELSE IF ~is_help_domain(arg) THEN Finish(<< >>, Ret(<< >>, None))
     ELSE Step(<< >>, "probes") /\ UNCHANGED << attempt, probe, out >>

\* one pass of the loop of try_alternative_urls
AlternativeProbe ==
  /\ entry = "strategy" /\ pc = "probes"
  /\ \E resp \in Responses(alternative_patterns(arg)[probe]) :
       IF probe_step(probe, alternative_patterns(arg), resp).do = "return"
         THEN Finish(<< SessionOpened, Got(alternative_patterns(arg)[probe], resp) >>,
                     probe_step(probe, alternative_patterns(arg), resp).r)
         ELSE /\ Step(<< SessionOpened, Got(alternative_patterns(arg)[probe], resp) >>,
                      "probes")
              /\ probe' = probe + 1
              /\ UNCHANGED << attempt, out >>

StrategyNext ==
  \/ BasicRequestCall \/ StealthSessionCall
  \/ SessionWarming \/ StealthAttempt
  \/ SeleniumCall \/ FirecrawlCall
  \/ AlternativeDomain \/ AlternativeProbe

Strategy == StrategyInit /\ [][StrategyNext]_vars


(***************************************************************************)
(* app.py: the script runs of a session (entry "app"): the click on the    *)
(* button, the processing run over the Document Map and the display.  docs *)
(* is what crawl_and_extract(urls, max_depth=1) returns; app holds the     *)
(* locals of the run and the session state.  What the structuring call     *)
(* and the presentation calls answer is chosen at each pass of the loop;   *)
(* log records the structuring calls.                                      *)
(***************************************************************************)
\* most entries of a Document Map handed to the loop
MaxDocs == 3

\* the keys of the Document Maps of the model, in insertion order
DocUrls == << NotUrl, RootUrl, DocsUrl, XUrl, YUrl >>

\* the texts crawl_and_extract records for url
DocTexts(url) ==
  IF ~is_valid_url(url) THEN {invalid_url_text(url)}
  ELSE {ProseText, QuotingText,
        fallback_text(url, generate_fallback_content(url).modules)}

\* the Document Maps with the first n keys
DocMaps(n) ==
  {d \in [1..n -> UNION {[url : {DocUrls[m]}, text : DocTexts(DocUrls[m])] : m \in 1..n}] :
     \A m \in 1..n : d[m].url = DocUrls[m]}

\* a seed list that gives a Document Map of the first n keys: the keys
\* themselves, or for the empty map a URL that crawl skips
SeedsOf(n) == IF n = 0 THEN << PdfUrl >> ELSE SubSeq(DocUrls, 1, n)

AppInit ==
  /\ entry = "app"
  /\ \E n \in 0..MaxDocs : urls = SeedsOf(n) /\ docs \in DocMaps(n)
  /\ max_depth = 1
  /\ pc = "idle"
  /\ app = Idle
  /\ seed = 1 /\ visited = {} /\ stack = << >> /\ calls = << >> /\ debug = 0
  /\ arg = << >> /\ k = 0 /\ attempt = 0 /\ probe = 1 /\ log = << >>
  /\ out = NoResult /\ orch = NoResult /\ ret = NoResult

\* the messages of the summary for the results of the session state
summary(results_data) ==
  IF Len(results_data.all_results) = 0 THEN {"No meaningful modules"}
  ELSE LET total_displayed == Len(results_data.all_results)
       IN  {"Displaying"}
           \cup (IF results_data.success_count > 0 THEN {"Successfully extracted"} ELSE {})
           \cup (IF results_data.fallback_count > 0 THEN {"Used fallback content"} ELSE {})
           \cup (IF results_data.total_urls - total_displayed > 0 THEN {"Skipped"} ELSE {})
           \cup (IF total_displayed # results_data.success_count + results_data.fallback_count
                   THEN {"Display count mismatch"} ELSE {})

\* a variant of handled that leaves the run in progress
handled_in_progress(a) ==
  [a EXCEPT !.shown = {"An error occurred during processing"}]

\* the handler of the processing run: the error is shown and the run is no
\* longer in progress
handled(a) ==
  [a EXCEPT !.shown = {"An error occurred during processing"},
            !.processing_in_progress = FALSE]

\* a script run with the button clicked: without URLs a warning, else the
\* session state is set for a processing run and the script is rerun
ExtractClicked ==
  /\ entry = "app" /\ pc \in {"idle", "shown", "failed"}
  /\ \E entered \in BOOLEAN :
       IF entered
         THEN /\ app' = [Idle EXCEPT !.processing_in_progress = TRUE]
              /\ pc' = "clicked"
              /\ log' = << >>
         ELSE /\ app' = [app EXCEPT !.shown =
                          {"Please enter"}
                          \cup (IF app.processing_complete /\ app.extraction_results # None
                                  THEN summary(app.extraction_results) ELSE {})]
              /\ UNCHANGED << pc, log >>
  /\ UNCHANGED << entry, arg, k, attempt, probe, out, orch, ret >>
  /\ UNCHANGED crawlVars

\* the processing run begins: crawl_and_extract returns docs, or it raises
\* and the handler of the run reports that
StartProcessing ==
  /\ entry = "app" /\ pc = "clicked"
  /\ app.processing_in_progress /\ ~app.processing_complete
  /\ \E crawled \in BOOLEAN :
       IF crawled
         THEN app' = app /\ pc' = "process"
         ELSE app' = handled(app) /\ pc' = "failed"
  /\ UNCHANGED << entry, arg, k, attempt, probe, log, out, orch, ret >>
  /\ UNCHANGED crawlVars

\* what extract_modules_with_ai(content, url) answers: it raises, or returns
\* an empty list or a list of module records
Structurings == {"raised", "empty", "modules"}

\* a list of module records
ModuleRecords == << [module |-> <<"S","e","t","u","p">>, Description |-> <<"I","n","s","t","a","l","l"," ","t","h","e"," ","p","a","c","k","a","g","e">> ] >>

\* modules_data for an answer that is returned
modules_data_of(structured) ==
  IF structured = "modules" THEN ModuleRecords ELSE << >>

\* modules_data and isinstance(modules_data, list) and len(modules_data) > 0
is_stored(structured) == structured = "modules"

\* processed_count += 1
counted(a) == [a EXCEPT !.processed_count = @ + 1]

\* all_results[url] = result
put_result(results, url, result) ==
  IF \E n \in 1..Len(results) : results[n].url = url
    THEN [n \in 1..Len(results) |-> IF results[n].url = url THEN result ELSE results[n]]
    ELSE Append(results, result)

\* a variant of stored that counts a stored result as successful only
stored_counting_success(a, item, modules_data) ==
  LET is_fallback == In(<<"F","A","L","L","B","A","C","K"," ","C","O","N","T","E","N","T">>, item.text) \/ In(<<"E","X","T","R","A","C","T","I","O","N"," ","F","A","I","L","E","D">>, item.text)
      result == [ url |-> item.url, content |-> item.text, modules |-> modules_data,
                  is_fallback |-> is_fallback, content_length |-> Len(item.text),
                  has_modules |-> TRUE ]
  IN  [a EXCEPT !.all_results = put_result(@, item.url, result),
                !.success_count = IF is_fallback THEN @ ELSE @ + 1]

\* the branch that stores the result of item and counts it
stored(a, item, modules_data) ==
  LET is_fallback == In(<<"F","A","L","L","B","A","C","K"," ","C","O","N","T","E","N","T">>, item.text) \/ In(<<"E","X","T","R","A","C","T","I","O","N"," ","F","A","I","L","E","D">>, item.text)
      result == [ url |-> item.url, content |-> item.text, modules |-> modules_data,
                  is_fallback |-> is_fallback, content_length |-> Len(item.text),
                  has_modules |-> TRUE ]
  IN  [a EXCEPT !.all_results = put_result(@, item.url, result),
                !.fallback_count = IF is_fallback THEN @ + 1 ELSE @,
                !.success_count = IF is_fallback THEN @ ELSE @ + 1]

\* the try block of the loop body: early is whether a presentation call
\* before the count raises, late whether a metric update after it raises
try_body(a, item, early, structured, late) ==
  IF early THEN [exc |-> TRUE, app |-> a]
  ELSE IF structured = "raised" THEN [exc |-> TRUE, app |-> counted(a)]
  ELSE LET after == IF is_stored(structured)
                      THEN stored(counted(a), item, modules_data_of(structured))
                      ELSE counted(a)
       IN  [exc |-> late, app |-> after]

\* the loop body: the try block and, when it raised, the except block
loop_body(a, item, early, structured, late) ==
  LET tried == try_body(a, item, early, structured, late)
  IN  IF tried.exc THEN counted(tried.app) ELSE tried.app

\* one pass of the for loop over docs.items(); when a metric update of the
\* except block raises too the exception leaves the loop for the handler of
\* the run, which reports it and stores nothing
ProcessEntry ==
  /\ entry = "app" /\ pc = "process" /\ app.i < Len(docs)
  /\ \E early \in BOOLEAN, structured \in Structurings, late \in BOOLEAN, broken \in BOOLEAN :
       LET item == docs[app.i + 1]
           tried == try_body(app, item, early, structured, late)
           after == loop_body(app, item, early, structured, late)
       IN  /\ broken => tried.exc
           /\ IF broken
                THEN /\ app' = handled(after)
                     /\ pc' = "failed"
                ELSE /\ app' = [after EXCEPT !.i = @ + 1]
                     /\ pc' = "process"
           /\ log' = IF early THEN log
                     ELSE Append(log, Event("extract_modules_with_ai", item.url, structured))
  /\ UNCHANGED << entry, arg, k, attempt, probe, out, orch, ret >>
  /\ UNCHANGED crawlVars

\* after the loop: the results go to the session state and the script is
\* rerun to display them; a presentation call may raise before that (the
\* handler reports it and nothing is stored) or after it (the handler
\* reports it and the display follows in the same run)
StoreResults ==
  /\ entry = "app" /\ pc = "process" /\ app.i = Len(docs)
  /\ \E broken \in {"before", "after", "no"} :
       LET set == [app EXCEPT
                    !.extraction_results =
                       [ all_results |-> app.all_results,
                         success_count |-> app.success_count,
                         fallback_count |-> app.fallback_count,
                         total_processed |-> app.processed_count,
                         total_urls |-> Len(urls) ],
                    !.processing_complete = TRUE,
                    !.processing_in_progress = FALSE]
       IN  CASE broken = "before" -> app' = handled(app) /\ pc' = "failed"
             [] broken = "after" -> app' = handled(set) /\ pc' = "display"
             [] OTHER -> app' = set /\ pc' = "display"
  /\ UNCHANGED << entry, arg, k, attempt, probe, log, out, orch, ret >>
  /\ UNCHANGED crawlVars

\* the display of the results held by the session state
Display ==
  /\ entry = "app" /\ pc = "display"
  /\ app.processing_complete /\ app.extraction_results # None
  /\ app' = [app EXCEPT !.shown = @ \cup summary(app.extraction_results)]
  /\ pc' = "shown"
  /\ UNCHANGED << entry, arg, k, attempt, probe, log, out, orch, ret >>
  /\ UNCHANGED crawlVars

AppNext == ExtractClicked \/ StartProcessing \/ ProcessEntry \/ StoreResults \/ Display

App == AppInit /\ [][AppNext]_vars
(***************************************************************************)
(* Properties.                                                             *)
(***************************************************************************)
\* try_multiple_approaches has returned and the locals of the call are alive
Returned == pc \in {"orchestrated", "extracted", "done"}

\* extract_content_with_guaranteed_fallback has returned or raised
WrapperDone == pc \in {"extracted", "done"}

\* the approach of a log entry returned text whose trimmed length exceeds 50
Accepting(e) == ~e.raised /\ e.len > MinTextLen

\* every one of the six approaches was invoked and raised
AllRaised ==
  /\ Len(log) = Len(approaches)
  /\ \A n \in 1..Len(log) : log[n].raised

FallbackMarker == <<"F","A","L","L","B","A","C","K"," ","C","O","N","T","E","N","T"," ","F","O","R",":">>
ErrorMarker == <<"E","X","T","R","A","C","T","I","O","N"," ","F","A","I","L","E","D"," ","F","O","R",":">>
DescriptionPrefix == <<" "," "," ","D","e","s","c","r","i","p","t","i","o","n",":"," ">>

\* the entry a text lists on lines j and j + 1: "<number>. <name>" followed by
\* "   Description: <description>"
ListedAt(lines, j, dot) ==
  [number |-> SubSeq(lines[j], 1, dot - 1),
   name |-> SubSeq(lines[j], dot + 2, Len(lines[j])),
   description |-> SubSeq(lines[j + 1], Len(DescriptionPrefix) + 1, Len(lines[j + 1]))]

\* the entries at the line numbers in at, in the order of the text
ListedIn(lines, at) ==
  [n \in 1..Cardinality(at) |->
     ListedAt(lines, CHOOSE j \in at : Cardinality({a \in at : a < j}) = n - 1,
              FirstOf({"."}, lines[CHOOSE j \in at : Cardinality({a \in at : a < j}) = n - 1]))]

ListedOn(lines) ==
  ListedIn(lines, {j \in 1..(Len(lines) - 1) : startswith(lines[j + 1], DescriptionPrefix)})

\* the numbered module entries a text lists, in the order of the text
Listing(text) == ListedOn(split_lines(text))

\* the modules numbered 1..n in their order
Numbered(modules) ==
  [n \in 1..Len(modules) |->
     [number |-> str(n), name |-> modules[n].name,
      description |-> modules[n].description]]

\* text is the synthesized fallback text for url: it begins with the marker
\* and the url, and lists the modules of generate_fallback_content(url)
ListsFallbackModules(text, url) ==
  Listing(text) = Numbered(generate_fallback_content(url).modules)

\* C1: for any URL and any combination of strategy outcomes,
\* extract_content_with_guaranteed_fallback returns a pair without raising,
\* and the returned text is non-empty.
C1_WrapperNeverRaises ==
  WrapperDone => (~ret.exc /\ ret.text # << >>)

\* C2: after crawl_and_extract returns, every seed URL that passes the
\* scheme+host validity check has exactly one Document Map entry, and that
\* entry's text is non-empty.
C2_EveryValidSeedHasOneEntry ==
  pc = "returned" =>
    \A n \in 1..Len(urls) :
      is_valid_url(urls[n]) =>
        /\ Cardinality({m \in 1..Len(docs) : docs[m].url = urls[n]}) = 1
        /\ \A m \in 1..Len(docs) : docs[m].url = urls[n] => docs[m].text # << >>

\* C3, as the claim states it: when every strategy raises for a valid URL, the
\* text the wrapper returns begins with 'EXTRACTION FAILED FOR: <url>' and
\* lists exactly the modules of generate_fallback_content(url), in order.
C3_AllRaisedGivesErrorText ==
  (WrapperDone /\ AllRaised /\ is_valid_url(arg)) =>
    /\ ~ret.exc
    /\ startswith(ret.text, ErrorMarker \o <<" ">> \o arg)
    /\ ListsFallbackModules(ret.text, arg)

\* C3, amended: when every strategy raises for a valid URL, the orchestrator
\* catches each exception and returns ("", None), so the text the wrapper
\* returns begins with 'FALLBACK CONTENT FOR: <url>'; it lists exactly the
\* modules of generate_fallback_content(url), numbered in the same order.
C3_AllRaisedGivesFallbackText ==
  (WrapperDone /\ AllRaised /\ is_valid_url(arg)) =>
    /\ ~ret.exc
    /\ startswith(ret.text, FallbackMarker \o <<" ">> \o arg)
    /\ ListsFallbackModules(ret.text, arg)

C3_Witness ==
  /\ pc = "extracted" /\ AllRaised /\ is_valid_url(arg)
  /\ startswith(ret.text, FallbackMarker \o <<" ">> \o arg)
  /\ Len(Listing(ret.text)) > 1

\* C4: the strategies are invoked in the fixed order of approaches; strategy
\* k is invoked only if every earlier one raised or returned text whose
\* trimmed length is <= 50; the orchestrator stops at the first strategy whose
\* trimmed text exceeds 50 and returns exactly its (text, document).
C4_FirstAcceptedStrategyWins ==
  /\ Len(log) <= Len(approaches)
  /\ \A n \in 1..Len(log) : log[n].name = approaches[n]
  /\ \A n \in 1..(Len(log) - 1) : ~Accepting(log[n])
  /\ pc = "extract" => k = Len(log) + 1
  /\ Returned => \/ Len(log) = Len(approaches)
                 \/ Accepting(log[Len(log)])
  /\ (Returned /\ Accepting(log[Len(log)])) =>
       /\ ~out.exc
       /\ orch = [exc |-> FALSE, text |-> out.text, soup |-> out.soup]

C4_Witness ==
  /\ pc = "orchestrated" /\ Len(log) = 3
  /\ log[1].raised /\ log[2].raised /\ Accepting(log[3])
  /\ orch.text = out.text /\ orch.soup = out.soup /\ orch.soup # None

\* C5: try_multiple_approaches never raises: a strategy's exception is caught
\* and the next strategy is tried; when all six are exhausted without accepted
\* text the result is ("", None), so a document is returned only together
\* with accepted text.
C5_OrchestratorNeverRaises ==
  /\ (pc = "extract" /\ Len(log) > 0 /\ log[Len(log)].raised) => k = Len(log) + 1
  /\ pc = "raised" => (ret.exc \/ log = << >>)
  /\ Returned =>
       /\ ~orch.exc
       /\ (\A n \in 1..Len(log) : ~Accepting(log[n])) =>
            /\ Len(log) = Len(approaches)
            /\ orch.text = << >> /\ orch.soup = None
       /\ orch.soup # None =>
            /\ Accepting(log[Len(log)])
            /\ Len(strip(orch.text)) > MinTextLen

C5_Witness ==
  /\ pc = "orchestrated" /\ Len(log) = Len(approaches)
  /\ log[1].raised /\ ~out.exc /\ out.soup # None /\ out.text # << >>
  /\ orch.text = << >> /\ orch.soup = None

\* C6: if the orchestrator's text is non-empty and passes
\* is_content_meaningful, the wrapper returns it unchanged with the
\* orchestrator's document; otherwise the returned text begins with
\* 'FALLBACK CONTENT FOR: <url>' and lists the modules of
\* generate_fallback_content(url) numbered 1..n in the synthesizer's order.
C6_GenuineOrFallback ==
  WrapperDone =>
    IF orch.text # << >> /\ IsMeaningful(orch.text)
      THEN ~ret.exc /\ ret.text = orch.text /\ ret.soup = orch.soup
      ELSE /\ ~ret.exc
           /\ startswith(ret.text, FallbackMarker \o <<" ">> \o arg)
           /\ ListsFallbackModules(ret.text, arg)

\* C6 holds of every call of the wrapper that returns: the calls that raise
\* are those in which generate_fallback_content raises (see C1).
C6_GenuineOrFallbackWhenReturning ==
  (WrapperDone /\ ~ret.exc) =>
    IF orch.text # << >> /\ IsMeaningful(orch.text)
      THEN ret.text = orch.text /\ ret.soup = orch.soup
      ELSE /\ startswith(ret.text, FallbackMarker \o <<" ">> \o arg)
           /\ ListsFallbackModules(ret.text, arg)

C6_Witness ==
  /\ pc = "extracted" /\ orch.text # << >> /\ ~IsMeaningful(orch.text)
  /\ startswith(ret.text, FallbackMarker \o <<" ">> \o arg)
  /\ Len(Listing(ret.text)) > 1

\* the wrapper returned text it synthesized for its argument
Synthesized ==
  /\ WrapperDone /\ ~ret.exc
  /\ \/ startswith(ret.text, FallbackMarker \o <<" ">> \o arg \o <<"\n">>)
     \/ startswith(ret.text, ErrorMarker \o <<" ">> \o arg \o <<"\n">>)

\* C7, as the claim states it: whenever the wrapper returns synthesized text
\* (text that begins with 'FALLBACK CONTENT FOR: <url>' or
\* 'EXTRACTION FAILED FOR: <url>'), the document it returns is None.
C7_SynthesizedTextHasNoDocument ==
  Synthesized => ret.soup = None

\* C7, amended: with 'EXTRACTION FAILED FOR:' text the document is None; with
\* 'FALLBACK CONTENT FOR:' text the document is the one the orchestrator
\* returned, which is None when no strategy's text was accepted and the
\* accepted strategy's document when its text failed is_content_meaningful.
C7_SynthesizedTextHasOrchestratorDocument ==
  Synthesized =>
    /\ startswith(ret.text, ErrorMarker) => ret.soup = None
    /\ startswith(ret.text, FallbackMarker) =>
         /\ ret.soup = orch.soup
         /\ orch.text = << >> => ret.soup = None
         /\ ret.soup # None =>
              /\ Accepting(log[Len(log)])
              /\ ret.soup = out.soup
              /\ ~IsMeaningful(orch.text)

C7_Witness ==
  /\ Synthesized /\ pc = "extracted"
  /\ startswith(ret.text, FallbackMarker)
  /\ ret.soup # None /\ ret.soup = out.soup
  /\ ~IsMeaningful(orch.text)

\* C8: within one invocation of crawl_and_extract the wrapper is invoked at
\* most once per distinct URL string.
C8_WrapperOncePerUrl ==
  \A m, n \in 1..Len(calls) : m # n => calls[m].url # calls[n].url

C8_Witness ==
  /\ pc = "returned" /\ Len(urls) = 2 /\ urls[1] = urls[2]
  /\ Len(calls) > 1

\* C9: the links of a page are followed only if a document tree was returned,
\* depth < max_depth, the text is non-empty, the text contains neither
\* fallback marker, and the text passes is_content_meaningful.  Frame n of
\* the stack is in its link loop when it is not the innermost one, or when
\* control is in the loop.
C9_LinksOnlyFromGenuinePages ==
  \A n \in 1..Len(stack) :
    (n > 1 \/ pc = "links") =>
      /\ stack[n].soup # None
      /\ stack[n].depth < max_depth
      /\ stack[n].text # << >>
      /\ ~In(FallbackMarker, stack[n].text)
      /\ ~In(ErrorMarker, stack[n].text)
      /\ IsMeaningful(stack[n].text)

C9_Witness ==
  /\ Len(stack) = 2 /\ pc = "extract"
  /\ stack[2].idx > 1
  /\ Len(find_all_a(stack[2].soup)) > 0

\* C10: every URL the wrapper is invoked on is crawled at a depth d with
\* 0 <= d <= max_depth, seeds at depth 0 and a followed link at its parent's
\* depth + 1; with max_depth = 0 the wrapper is invoked only on seed URLs and
\* no link is ever followed.
C10_DepthWithinBound ==
  /\ \A n \in 1..Len(calls) : calls[n].depth >= 0 /\ calls[n].depth <= max_depth
  /\ \A n \in 1..Len(stack) : stack[n].depth = Len(stack) - n
  /\ Len(stack) > 0 => stack[Len(stack)].url = urls[seed]
  /\ max_depth = 0 =>
       /\ pc # "links"
       /\ Len(stack) <= 1
       /\ \A n \in 1..Len(calls) :
            calls[n].depth = 0 /\ \E m \in 1..Len(urls) : urls[m] = calls[n].url

C10_Witness ==
  /\ max_depth = 0 /\ pc = "returned"
  /\ \E n \in 1..Len(docs) :
       /\ IsMeaningful(docs[n].text)
       /\ ~In(FallbackMarker, docs[n].text)
       /\ Len(Anchors(docs[n].url)) > 0

\* the seeds the for loop over urls is done with
SeedsDone == 1..(IF seed - 1 < Len(urls) THEN seed - 1 ELSE Len(urls))

\* the entries of the Document Map recorded under url
EntriesOf(url) == {m \in 1..Len(docs) : docs[m].url = url}

\* C11: for a seed that fails the scheme+host validity check the literal text
\* 'ERROR: Invalid URL format - <seed>', a blank line and 'Please check the
\* URL and try again.' is recorded under that seed; the wrapper is not
\* invoked for it, it is not added to visited, and it is not tried again.
C11_InvalidSeedRecordedLiterally ==
  /\ \A n \in SeedsDone :
       ~is_valid_url(urls[n]) =>
         /\ Cardinality(EntriesOf(urls[n])) = 1
         /\ \A m \in EntriesOf(urls[n]) :
              split_lines(docs[m].text) =
                << <<"E","R","R","O","R",":"," ","I","n","v","a","l","i","d"," ","U","R","L"," ","f","o","r","m","a","t"," ","-"," ">> \o urls[n], <<>>,
                   <<"P","l","e","a","s","e"," ","c","h","e","c","k"," ","t","h","e"," ","U","R","L"," ","a","n","d"," ","t","r","y"," ","a","g","a","i","n",".">> >>
  /\ \A n \in 1..Len(urls) :
       ~is_valid_url(urls[n]) =>
         /\ urls[n] \notin visited
         /\ \A c \in 1..Len(calls) : calls[c].url # urls[n]
         /\ \A f \in 1..Len(stack) : stack[f].url # urls[n]
         /\ (pc \in {"extract", "orchestrated", "extracted"}) => arg # urls[n]

C11_Witness ==
  /\ pc = "returned" /\ Len(urls) = 2
  /\ ~is_valid_url(urls[1]) /\ is_valid_url(urls[2])
  /\ Len(docs) > 1 /\ Len(calls) > 0
  /\ docs[1].text = invalid_url_text(urls[1])

\* the anchor the innermost crawl is about to examine, resolved
LinkAt(frame) == urljoin(frame.url, find_all_a(frame.soup)[frame.idx])

\* the page of the innermost crawl has anchors left and its cap is not reached
Examining(frame) ==
  /\ frame.idx <= Len(find_all_a(frame.soup))
  /\ frame.links_found < MaxLinks

\* a resolved link is one crawl recurses into
Followable(link, url) ==
  /\ is_valid_url(link)
  /\ urlparse(link).netloc = urlparse(url).netloc
  /\ link \notin visited
  /\ \A p \in 1..Len(skip_patterns) : ~In(skip_patterns[p], lower(link))

\* one step of the link loop of the innermost crawl
LinkLoopStep(frame) ==
  IF ~Examining(frame)
    THEN \* the loop is over, examining nothing more: crawl returns
         Len(stack') = Len(stack) - 1 /\ calls' = calls
  ELSE IF LinkAt(frame).exc
    THEN pc' = "raised" /\ calls' = calls
  ELSE IF Followable(LinkAt(frame).url, frame.url)
    THEN \* crawl(link, depth + 1) is entered, the loop waits at this anchor
         /\ stack' = << [url |-> LinkAt(frame).url, depth |-> frame.depth + 1,
                         text |-> << >>, soup |-> None, idx |-> 0,
                         links_found |-> 0] >> \o stack
         /\ calls' = Append(calls, [url |-> LinkAt(frame).url,
                                     depth |-> frame.depth + 1])
    ELSE \* the anchor is passed over and does not count
         /\ stack' = << [frame EXCEPT !.idx = @ + 1] >> \o Tail(stack)
         /\ calls' = calls

\* C12: from any single page the crawler recurses into at most 3 links, the
\* first 3 anchors in document order whose resolved URL, when the anchor is
\* examined, is valid, has the host of the page, is not yet visited and
\* matches no skip pattern; once 3 were followed no anchor is examined.
C12_FirstThreeQualifyingLinks ==
  /\ [](\A n \in 1..Len(stack) :
         /\ stack[n].links_found <= MaxLinks
         /\ stack[n].links_found <= stack[n].idx)
  /\ [][/\ pc = "links" => LinkLoopStep(stack[1])
        /\ (Len(stack) > 1 /\ Len(stack') = Len(stack) - 1) =>
             \* a followed link returned: it counts, and the next anchor is up
             stack' = << [stack[2] EXCEPT !.links_found = @ + 1, !.idx = @ + 1] >>
                      \o SubSeq(stack, 3, Len(stack))
        /\ (pc # "links" /\ Len(stack') = Len(stack) /\ Len(stack) > 0) =>
             /\ stack'[1].links_found = stack[1].links_found
             /\ Tail(stack') = Tail(stack)]_vars

C12_Witness ==
  /\ pc = "links"
  /\ stack[1].links_found = MaxLinks
  /\ stack[1].idx <= Len(find_all_a(stack[1].soup))
  /\ \E j \in stack[1].idx..Len(find_all_a(stack[1].soup)) :
       /\ ~urljoin(stack[1].url, find_all_a(stack[1].soup)[j]).exc
       /\ Followable(urljoin(stack[1].url, find_all_a(stack[1].soup)[j]).url, stack[1].url)

\* C14: an exception raised while one URL is processed inside
\* crawl_and_extract (in the extraction, the debug write, or the resolution
\* and filtering of the page's links) never aborts the invocation.
C14_NoExceptionAbortsTheCrawl ==
  entry = "crawl" => pc # "raised"

\* the URLs the anchors of the page at url lead to on the same host, the
\* skip patterns and the invalid ones left out
SameOriginLinks(url) ==
  {urljoin(url, Anchors(url)[j]).url :
     j \in {a \in 1..Len(Anchors(url)) :
              /\ ~urljoin(url, Anchors(url)[a]).exc
              /\ is_valid_url(urljoin(url, Anchors(url)[a]).url)
              /\ urlparse(urljoin(url, Anchors(url)[a]).url).netloc = urlparse(url).netloc
              /\ ~should_skip_url(urljoin(url, Anchors(url)[a]).url)}}

RECURSIVE ReachableWithin(_, _)
\* the URLs at most d same-origin links away from those in S
ReachableWithin(S, d) ==
  IF d = 0 THEN S
  ELSE ReachableWithin(S \cup UNION {SameOriginLinks(u) : u \in S}, d - 1)

\* the distinct seeds that are valid and match no skip pattern
CrawlableSeeds ==
  {urls[n] : n \in {s \in 1..Len(urls) : is_valid_url(urls[s]) /\ ~should_skip_url(urls[s])}}

\* the distinct seeds that are no valid URL
InvalidSeeds == {urls[n] : n \in {s \in 1..Len(urls) : ~is_valid_url(urls[s])}}

\* the keys of the Document Map
Keys == {docs[m].url : m \in 1..Len(docs)}

\* C13, as the claim states it: the Document Map returned has no duplicate
\* keys and its size is the number of distinct, valid, non-skip-pattern URLs
\* reachable from the seeds by same-origin links within max_depth, plus one
\* entry per distinct invalid seed.
C13_OneEntryPerReachableUrl ==
  pc = "returned" =>
    /\ Cardinality(Keys) = Len(docs)
    /\ Len(docs) = Cardinality(ReachableWithin(CrawlableSeeds, max_depth))
                    + Cardinality(InvalidSeeds)

\* C13, amended: the Document Map returned has no duplicate keys, and its
\* keys are the URLs the crawl visited and the invalid seeds.  The visited
\* URLs are the valid, non-skip-pattern seeds and URLs reached from them by
\* same-origin links within max_depth, but not always all of these: links are
\* followed only from pages with genuine meaningful text, 3 per page at most.
C13_OneEntryPerVisitedUrl ==
  pc = "returned" =>
    /\ Cardinality(Keys) = Len(docs)
    /\ Keys = visited \cup InvalidSeeds
    /\ Len(docs) = Cardinality(visited) + Cardinality(InvalidSeeds)
    /\ CrawlableSeeds \subseteq visited
    /\ visited \subseteq ReachableWithin(CrawlableSeeds, max_depth)

C13_Witness ==
  /\ pc = "returned"
  /\ InvalidSeeds # {}
  /\ Cardinality(visited) > 1
  /\ visited # ReachableWithin(CrawlableSeeds, max_depth)

\* the keys of a Document Map in insertion order
KeySeq(d) == [m \in 1..Len(d) |-> d[m].url]

\* the items of the Document Map that crawl recorded, in insertion order
CrawledItems ==
  LET is_crawled(item) == item.url \in visited
  IN  SelectSeq(docs, is_crawled)

\* the wrapper is at work for the innermost crawl, whose item is not yet put
Extracting == pc \in {"extract", "orchestrated", "extracted"}

\* C20: seeds are processed strictly depth-first and in input order: a seed
\* and all of its nested link follows are recorded before the next seed is
\* touched, and the insertion order of the Document Map is the order in which
\* the URLs were first discovered (the pre-order of the crawl).
C20_DepthFirstInSeedOrder ==
  /\ [](entry = "crawl" =>
         \* the active calls are a chain of followed links under the seed at hand
         /\ Len(stack) > 0 => seed <= Len(urls) /\ stack[Len(stack)].url = urls[seed]
         /\ \A n \in 1..(Len(stack) - 1) :
              /\ stack[n].depth = stack[n + 1].depth + 1
              /\ stack[n].url = LinkAt(stack[n + 1]).url
         /\ pc \in {"seeds", "returned"} => Len(stack) = 0
         \* the crawled keys are inserted in the order crawl was entered
         /\ Len(CrawledItems) = IF Extracting /\ pc # "raised" THEN Len(calls) - 1 ELSE Len(calls)
         /\ \A n \in 1..Len(CrawledItems) : CrawledItems[n].url = calls[n].url
         \* the seeds done are all recorded or skipped
         /\ \A n \in SeedsDone :
              urls[n] \in Keys \/ (is_valid_url(urls[n]) /\ should_skip_url(urls[n])))
  /\ [][/\ seed' # seed => seed' = seed + 1 /\ Len(stack) <= 1 /\ Len(stack') = 0
        /\ docs' # docs =>
             \/ /\ pc = "seeds" /\ seed <= Len(urls) /\ ~is_valid_url(urls[seed])
                /\ KeySeq(docs') = Append(KeySeq(docs), urls[seed])
             \/ /\ pc = "extracted" /\ Len(stack) > 0
                /\ calls[Len(calls)].url = stack[1].url
                /\ KeySeq(docs') = Append(KeySeq(docs), stack[1].url)
             \/ KeySeq(docs') = KeySeq(docs)]_vars

C20_Witness ==
  /\ pc = "returned" /\ Len(urls) = 2
  /\ Len(docs) > 3
  /\ docs[1].url = urls[1] /\ docs[Len(docs)].url = urls[2]
  /\ \E n \in 1..Len(calls) : calls[n].depth = 2
  /\ \E n \in 2..(Len(calls) - 1) : calls[n].depth > calls[n + 1].depth

\* the wrapper returned the text of a strategy as it got it
Genuine == orch.text # << >> /\ ret.text = orch.text /\ ret.soup = orch.soup

\* what the link gate of crawl and is_fallback of the caller look for
Marked(text) == In(<<"F","A","L","L","B","A","C","K"," ","C","O","N","T","E","N","T">>, text) \/ In(<<"E","X","T","R","A","C","T","I","O","N"," ","F","A","I","L","E","D">>, text)

\* C19: every text the wrapper synthesizes contains 'FALLBACK CONTENT' or
\* 'EXTRACTION FAILED', and no text it returns as genuine strategy output
\* contains either marker: the markers are found exactly in synthesized
\* results.
C19_MarkersExactlyOnSynthesizedText ==
  (WrapperDone /\ ~ret.exc) => (Marked(ret.text) <=> ~Genuine)

\* is_content_meaningful was called and has returned
Filtered == entry = "filter" /\ pc = "done"

\* C15, as the claim states it: is_content_meaningful returns a boolean for
\* every text, false exactly when the text is empty or under 20 characters,
\* or fewer than 60% of its characters are alphanumeric or whitespace, or it
\* has more than 10 tokens and fewer than 30% of them are distinct.
C15_FalseExactlyWhenShortGarbledOrRepetitive ==
  Filtered =>
    /\ ~ret.exc /\ ret.value \in BOOLEAN
    /\ ret.value = FALSE <=>
         \/ arg.chars = 0 \/ arg.chars < 20
         \/ 100 * arg.plain < 60 * arg.chars
         \/ arg.tokens > 10 /\ 100 * arg.unique < 30 * arg.tokens

\* C15, amended: the length that must reach 20 is that of the text with its
\* leading and trailing whitespace trimmed.
C15_FalseExactlyWhenTrimmedShortGarbledOrRepetitive ==
  Filtered =>
    /\ ~ret.exc /\ ret.value \in BOOLEAN
    /\ ret.value = FALSE <=>
         \/ arg.chars = 0
         \/ (IF arg.tokens = 0 THEN 0 ELSE arg.chars - arg.lead) < 20
         \/ 100 * arg.plain < 60 * arg.chars
         \/ arg.tokens > 10 /\ 100 * arg.unique < 30 * arg.tokens

C15_Witness ==
  /\ Filtered /\ ret.value = FALSE
  /\ arg.lead > 0 /\ arg.chars >= 20 /\ arg.chars - arg.lead < 20
  /\ 100 * arg.plain >= 60 * arg.chars
  /\ arg.tokens <= 10

\* extract_main_content was called and has returned
Extracted == entry = "content" /\ pc = "done"

\* the first element of the document that candidate number c selects, 0 if none
FirstSelected(doc, c) == Least({n \in 1..Len(doc.els) : c \in doc.els[n].sel})

\* the candidates whose first match has normalized text longer than 100
Qualifying(doc) ==
  {c \in 1..Len(candidates) :
     /\ FirstSelected(doc, c) # 0
     /\ Len(doc.els[FirstSelected(doc, c)].clean) > 100}

\* C16: named containers have priority over block size: if the first match of
\* any selector of the ordered candidate list has normalized text longer than
\* 100 characters, the result is the text of the earliest such selector,
\* even when another block holds more text.
C16_NamedContainerBeforeLargestBlock ==
  (Extracted /\ Qualifying(arg) # {}) =>
    /\ ~ret.exc
    /\ ret.value = arg.els[FirstSelected(arg, Least(Qualifying(arg)))].clean

C16_Witness ==
  /\ Extracted /\ Len(arg.els) = 2
  /\ arg.els[1].name = <<"d","i","v">> /\ arg.els[1].class = << <<"s","i","d","e","b","a","r">> >>
  /\ arg.els[2].name = <<"m","a","i","n">> /\ Len(arg.els[2].clean) = 150
  /\ Len(arg.els[1].clean) > Len(arg.els[2].clean)
  /\ ret.value = arg.els[2].clean

\* the blocks of the largest-block strategy: the div/section/article/main/
\* aside elements with no navigation word among words in their class or id,
\* whose normalized text is longer than 200
LargeBlocks(doc, id_words) ==
  {n \in 1..Len(doc.els) :
     /\ doc.els[n].block
     /\ doc.els[n].hint.in # "class"
     /\ ~(doc.els[n].hint.in = "id" /\ doc.els[n].hint.word \in id_words)
     /\ Len(doc.els[n].clean) > 200}

\* the first of the largest of the blocks
FirstLargest(doc, blocks) ==
  CHOOSE n \in blocks :
    \A o \in blocks :
      \/ Len(doc.els[o].clean) < Len(doc.els[n].clean)
      \/ Len(doc.els[o].clean) = Len(doc.els[n].clean) /\ n <= o

\* what extract_main_content returns when no named selector qualifies
BlockOrBody(doc, blocks) ==
  IF blocks # {} THEN doc.els[FirstLargest(doc, blocks)].clean
  ELSE IF doc.body.present /\ Len(doc.body.clean) > 100 THEN doc.body.clean
  ELSE << >>

\* C17, as the claim states it: when no named selector qualifies, the result
\* is the text of the largest div/section/article/main/aside block whose
\* class and id do not indicate navigation/header/footer/sidebar/menu/
\* breadcrumb and whose normalized length exceeds 200, the first in document
\* order among equal lengths; without such a block the body text when its
\* normalized length exceeds 100, and otherwise the empty string.
C17_LargestBlockThenBody ==
  (Extracted /\ Qualifying(arg) = {}) =>
    /\ ~ret.exc
    /\ ret.value = BlockOrBody(arg, LargeBlocks(arg,
          {<<"n","a","v">>, <<"n","a","v","i","g","a","t","i","o","n">>, <<"h","e","a","d","e","r">>, <<"f","o","o","t","e","r">>, <<"s","i","d","e","b","a","r">>, <<"m","e","n","u">>, <<"b","r","e","a","d","c","r","u","m","b">>}))

\* C17, amended: a block is left out when its class contains one of nav,
\* navigation, header, footer, sidebar, menu, breadcrumb, or its id contains
\* one of nav, navigation, header, footer, sidebar, menu: breadcrumb in the
\* id does not leave a block out.
C17_LargestBlockThenBodyByCodeLists ==
  (Extracted /\ Qualifying(arg) = {}) =>
    /\ ~ret.exc
    /\ ret.value = BlockOrBody(arg, LargeBlocks(arg,
          {<<"n","a","v">>, <<"n","a","v","i","g","a","t","i","o","n">>, <<"h","e","a","d","e","r">>, <<"f","o","o","t","e","r">>, <<"s","i","d","e","b","a","r">>, <<"m","e","n","u">>}))

C17_Witness ==
  /\ Extracted /\ Qualifying(arg) = {} /\ Len(arg.els) = 2
  /\ arg.els[1].hint.in = "none" /\ Len(arg.els[1].clean) = 250
  /\ arg.els[2].hint.word = <<"b","r","e","a","d","c","r","u","m","b">> /\ arg.els[2].hint.in = "id"
  /\ ret.value = arg.els[2].clean

\* generate_fallback_content was called and has returned or raised
Synthesizing == entry = "fallback" /\ pc = "done"

\* the hostname and the path of the URL, lower-cased
HostOf(url) == lower(urlparse(url).netloc)
PathOf(url) == lower(urlparse(url).path)

\* the entries of table whose key is contained in s
KeysIn(table, s) == {n \in 1..Len(table) : In(table[n].key, s)}

\* the branch of the priority order that a hostname and a path select:
\* (a) a site key in the hostname, (b) a path keyword in the path,
\* (c) a keyword in the hostname, (d) the generic set
BranchOf(host, path) ==
  IF KeysIn(domain_modules, host) # {} THEN "a"
  ELSE IF KeysIn(path_modules, path) # {} THEN "b"
  ELSE IF \E keyword \in {<<"s","u","p","p","o","r","t">>, <<"h","e","l","p">>, <<"d","o","c","s">>} : In(keyword, host) THEN "c"
  ELSE "d"

\* the module lists that branch may give
ListsOf(branch, host, path) ==
  CASE branch = "a" -> {domain_modules[n].modules : n \in KeysIn(domain_modules, host)}
    [] branch = "b" -> {path_modules[n].modules : n \in KeysIn(path_modules, path)}
    [] branch = "c" -> {generic_help_modules}
    [] branch = "d" -> {ultimate_modules(host)}

\* a list of exactly 5 {name, description} entries
FiveEntries(modules) ==
  /\ Len(modules) = 5
  /\ \A n \in 1..5 : DOMAIN modules[n] = {"name", "description"}

\* C18: generate_fallback_content(url) always returns a non-empty module list
\* of exactly 5 {name, description} entries, chosen by exactly one branch in
\* the priority (a) a known site key contained in the hostname, (b) a path
\* keyword help/support/docs contained in the URL path, (c) a keyword
\* support/help/docs contained in the hostname, (d) the generic set
\* parameterized by the hostname; an earlier branch that matches wins.
C18_AlwaysFiveModulesByPriority ==
  Synthesizing =>
    /\ ~ret.exc
    /\ FiveEntries(ret.value)
    /\ ret.value \in ListsOf(BranchOf(HostOf(arg), PathOf(arg)), HostOf(arg), PathOf(arg))

\* the same for every call that returns: the calls that raise are those with
\* a URL that urlparse rejects (see C1)
C18_FiveModulesByPriorityWhenReturning ==
  Synthesizing =>
    /\ ret.exc <=> urlparse(arg).exc
    /\ ~ret.exc =>
         /\ FiveEntries(ret.value)
         /\ ret.value \in ListsOf(BranchOf(HostOf(arg), PathOf(arg)), HostOf(arg), PathOf(arg))

\* a site key in the hostname wins over keywords in the path and the hostname
C18_Witness ==
  /\ Synthesizing /\ arg = <<"h","t","t","p",":","/","/","h","e","l","p",".","g","i","t","h","u","b",".","c","o","m","/","d","o","c","s">>
  /\ ret.value = modules_github_com

(***************************************************************************)
(* Termination of the crawl: a measure that every step lowers.             *)
(***************************************************************************)
\* the URLs a crawl can come to: the seeds and what the anchors join to
KnownUrls ==
  SeedUrls \cup UNION {{urljoin(url, Anchors(url)[n]).url : n \in 1..Len(Anchors(url))} :
                         url \in {RootUrl, DocsUrl, XUrl, HelpUrl}}

\* most anchors of a page: those of the root page
MostAnchors == Len(Anchors(RootUrl))

RECURSIVE LoopWork(_)
\* the passes the link loops of the active calls of crawl have left, counting
\* one more for the return of each call
LoopWork(frames) ==
  IF frames = << >> THEN 0
  ELSE (MostAnchors + 2 - frames[1].idx) + LoopWork(Tail(frames))

\* how far control is from the end of the statement it is in
PcRank ==
  CASE pc = "extract"      -> 5
    [] pc = "orchestrated" -> 4
    [] pc = "extracted"    -> 3
    [] pc = "links"        -> 2
    [] pc = "seeds"        -> 1
    [] OTHER               -> 0

\* the measure: URLs not yet visited, seeds left, passes of the link loops
\* left, and what is left of the extraction call in progress
Measure ==
  << Cardinality(KnownUrls \ visited),
     Len(urls) + 1 - seed,
     LoopWork(stack),
     PcRank,
     Len(approaches) + 1 - k,
     MaxAttempts + Len(patterns_at(<< >>)) + 1 - attempt - probe >>

\* a comes before b in the lexicographic order
RECURSIVE Below(_, _)
Below(a, b) ==
  /\ a # << >>
  /\ \/ a[1] < b[1]
     \/ a[1] = b[1] /\ Below(Tail(a), Tail(b))

\* the components of the measure are natural numbers
MeasureIsNatural == \A n \in 1..Len(Measure) : Measure[n] >= 0

\* the wrapper raised and the exception left crawl_and_extract
WrapperEscaped == pc = "raised" /\ ret.exc

\* every step lowers the measure, so no run of the crawl is infinite
EveryStepLowersTheMeasure ==
  /\ [](entry = "crawl" => MeasureIsNatural)
  /\ [][entry = "crawl" => Below(Measure', Measure)]_vars

\* C21: crawl_and_extract terminates and returns the Document Map for every
\* finite seed list, every max_depth and every finite link graph, cycles and
\* self-links included, provided each extraction call returns: every step
\* lowers the measure, and no exception but that of an extraction call ends
\* the crawl (control stops at "returned" and at "raised" only).
C21_CrawlReturnsTheDocumentMap ==
  /\ EveryStepLowersTheMeasure
  /\ []((entry = "crawl" /\ pc = "raised") => WrapperEscaped)

\* every crawl ends, also over link cycles and self-links
C21_CrawlEnds == EveryStepLowersTheMeasure

\* a crawl over a link cycle (the root page links to /docs, which links back
\* to the root) has returned
C21_Witness ==
  /\ entry = "crawl" /\ pc = "returned"
  /\ {RootUrl, DocsUrl} \subseteq visited

(***************************************************************************)
(* The guard of crawl and the visited set.                                 *)
(***************************************************************************)
\* url is already visited, depth exceeds max_depth, or url matches a skip
\* pattern
Guarded(url, depth) ==
  \/ url \in visited
  \/ depth > max_depth
  \/ \E p \in 1..Len(skip_patterns) : In(skip_patterns[p], lower(url))

\* the for loop over urls is at a valid seed that the guard of crawl holds back
AtGuardedSeed ==
  /\ entry = "crawl" /\ pc = "seeds" /\ seed <= Len(urls)
  /\ is_valid_url(urls[seed])
  /\ Guarded(urls[seed], 0)

\* the link loop is at an anchor whose URL the guard of crawl holds back
AtGuardedLink ==
  /\ entry = "crawl" /\ pc = "links" /\ Examining(stack[1])
  /\ ~LinkAt(stack[1]).exc
  /\ Guarded(LinkAt(stack[1]).url, stack[1].depth + 1)

ValidKeys == {docs[n].url : n \in {m \in 1..Len(docs) : is_valid_url(docs[m].url)}}

\* the invocation is under way or has returned, and no extraction call is in
\* progress
BetweenExtractions ==
  /\ entry = "crawl"
  /\ \/ pc \in {"seeds", "links", "returned"}
     \/ pc = "raised" /\ ~WrapperEscaped

\* C28: during one invocation of crawl_and_extract the visited set starts
\* empty and only grows; whenever no extraction call is in progress the
\* valid-URL keys of the Document Map are exactly the visited set; and an
\* entry once written for a visited URL is never overwritten.
C28_VisitedGrowsAndMatchesTheKeys ==
  /\ visited = {}
  /\ [](BetweenExtractions => ValidKeys = visited)
  /\ [][entry = "crawl" =>
          /\ visited \subseteq visited'
          /\ Len(docs') >= Len(docs)
          /\ \A n \in 1..Len(docs) :
               docs[n].url \in visited => docs'[n] = docs[n]]_vars

\* between two extraction calls, with a link followed and recorded
C28_Witness ==
  /\ entry = "crawl" /\ pc = "links" /\ Len(stack) = 1
  /\ Cardinality(visited) >= 2 /\ ValidKeys = visited
  /\ stack[1].links_found >= 1

(***************************************************************************)
(* The strategies, one by one.                                             *)
(***************************************************************************)
\* approach number n was called, and it has returned or raised
Ended(n) == entry = "strategy" /\ k = n /\ pc = "done"

\* the positions of the trace with an event ev
Events(ev) == {n \in 1..Len(log) : log[n].ev = ev}

\* the requests sent to url
Gets(url) == {n \in Events("get") : log[n].at = url}

\* the request raised, or raise_for_status would raise on its answer
Failed(n) == log[n].answer \in {"raised", "403"}

\* the request was answered with a page whose extracted text has a trimmed
\* length above 50: the pages of every content variant but "empty"
Sufficient(n) == log[n].answer \in {"main", "garbled", "quoting"}

\* request number n is the last of the requests in S
LastOf(n, S) == n \in S /\ \A m \in S : m <= n

\* what the advanced stealth strategy does once its attempts begin
AttemptLoop ==
  /\ Cardinality(Gets(arg)) <= 3
  /\ \A n \in Gets(arg) :
       /\ Sufficient(n) =>
            /\ LastOf(n, Gets(arg)) /\ pc = "done"
            /\ ~out.exc /\ Len(strip(out.text)) > 50
            /\ out.soup = Page(arg, log[n].answer)
       /\ (Failed(n) /\ Cardinality({m \in Gets(arg) : m <= n}) < 3) =>
            /\ n < Len(log) /\ log[n + 1] = Slept("5-10")
            /\ pc = "done" => \E m \in Gets(arg) : m > n
       /\ (~Failed(n) /\ ~Sufficient(n) /\ pc = "done" /\ LastOf(n, Gets(arg))) =>
            /\ Cardinality(Gets(arg)) = 3
            /\ out = Ret(<< >>, None)
  /\ \A n \in Events("get") \ Gets(arg) :
       \* the warm-up request
       (pc = "done" /\ log[n].answer = "raised") => Gets(arg) # {}

\* the third attempt was made and raised
ThirdAttemptRaised ==
  /\ Cardinality(Gets(arg)) = 3
  /\ \E n \in Gets(arg) : LastOf(n, Gets(arg)) /\ Failed(n)

\* C22, as the claim states it: advanced_stealth_approach issues the real
\* request at most 3 times and returns at the first attempt whose text has a
\* trimmed length above 50; an exception of attempt 1 or 2 is swallowed and
\* followed by a backoff delay and another attempt; an exception escapes if
\* and only if the third attempt raises; a third attempt with insufficient
\* text gives ("", None); a failed warm-up request does not prevent the
\* attempts.
C22_ThreeAttemptsLastFailureRaised ==
  (entry = "strategy" /\ k = 3) =>
    /\ AttemptLoop
    /\ pc = "done" => (out.exc <=> ThirdAttemptRaised)

\* C22, amended: an exception escapes if and only if the third attempt
\* raises or urlparse rejects the URL; in the latter case the strategy raises
\* before the warm-up request and before any attempt.
C22_ThreeAttemptsLastFailureOrUrlRaised ==
  (entry = "strategy" /\ k = 3) =>
    /\ AttemptLoop
    /\ pc = "done" => (out.exc <=> (ThirdAttemptRaised \/ urlparse(arg).exc))
    /\ urlparse(arg).exc => Events("get") = {}

\* two attempts raised and the third returned the page
C22_Witness ==
  /\ Ended(3) /\ Cardinality(Gets(arg)) = 3 /\ ~out.exc /\ out.soup # None
  /\ Cardinality({n \in Gets(arg) : Failed(n)}) = 2
  /\ \E n \in Events("get") \ Gets(arg) : log[n].answer = "raised"

\* C23: in get_dynamic_html, once a browser instance has been created,
\* driver.quit() is attempted exactly once before the function returns, on
\* every exit path; a failure of quit is swallowed and does not change the
\* outcome; on any failure the function returns None and does not raise, so
\* selenium_approach yields ("", None).
C23_BrowserQuitOnceOnEveryPath ==
  Ended(4) =>
    /\ Cardinality(Events("quit")) = Cardinality(Events("driver"))
    /\ Cardinality(Events("driver")) <= 1
    /\ \A d \in Events("driver") : \E q \in Events("quit") : q > d /\ q = Len(log)
    /\ ~out.exc
    /\ log[1].answer # "none" => out = Ret(<< >>, None)
    /\ log[1].answer = "none" =>
         \E p \in Events("page_source") : out.soup = Page(arg, log[p].answer)

\* the wait timed out and quit raised as well
C23_Witness ==
  /\ Ended(4) /\ log[1].answer = "wait"
  /\ \E q \in Events("quit") : log[q].answer = "raised"
  /\ out = Ret(<< >>, None)

\* C24: every strategy that opens a network session releases it before the
\* strategy call ends, on every exit path: no session a strategy opened is
\* still open after the strategy returned or raised.
C24_SessionsReleased ==
  (entry = "strategy" /\ pc = "done") =>
    \A s \in Events("session") : \E c \in Events("close") : c > s

\* the basic request strategy has opened a session and returned
C24_Witness == Ended(1) /\ Events("session") # {} /\ ~out.exc

\* C25: try_firecrawl_extraction never raises and returns the service's
\* markdown only when its trimmed length exceeds 100; in every other case
\* (client unavailable, service error, missing or short markdown) it returns
\* ("", None); the returned document is not None only when the payload
\* carried an 'html' field.
C25_FirecrawlMarkdownOrNothing ==
  Ended(5) =>
    /\ ~out.exc
    /\ out.text # << >> =>
         /\ log[1].answer \in {"long", "long, html"}
         /\ out.text = MarkdownText
         /\ Len(strip(out.text)) > 100
    /\ log[1].answer \notin {"long", "long, html"} => out = Ret(<< >>, None)
    /\ out.soup # None => log[1].answer = "long, html"

\* markdown without html: the text is returned without a document
C25_Witness ==
  /\ Ended(5) /\ log[1].answer = "long"
  /\ out.text = MarkdownText /\ out.soup = None

\* the host of the url names a help or support site
HelpHost(url) ==
  In(<<"s","u","p","p","o","r","t">>, lower(urlparse(url).netloc)) \/ In(<<"h","e","l","p">>, lower(urlparse(url).netloc))

\* what try_alternative_urls does for a url whose host names a help site
ProbeLoop ==
  /\ Cardinality(Events("get")) <= Len(alternative_patterns(arg))
  /\ Cardinality(Events("get")) = Cardinality(Events("session"))
  /\ \A n \in Events("get") :
       /\ log[n].at = alternative_patterns(arg)[Cardinality({m \in Events("get") : m <= n})]
       /\ Sufficient(n) =>
            /\ pc = "done" /\ LastOf(n, Events("get"))
            /\ ~out.exc /\ Len(strip(out.text)) > 50
            /\ out.soup = Page(log[n].at, log[n].answer)
  /\ (pc = "done" /\ \A n \in Events("get") : ~Sufficient(n)) =>
       /\ Cardinality(Events("get")) = Len(alternative_patterns(arg))
       /\ out = Ret(<< >>, None)

\* C26, as the claim states it: try_alternative_urls issues no request and
\* returns ("", None) when the hostname contains neither 'support' nor
\* 'help'; otherwise it probes the path variants in list order, swallows the
\* failure of any probe, and returns the result of the first probe answered
\* with status 200 and more than 50 characters of text, probing no further;
\* if none qualifies it returns ("", None).
C26_ProbesInOrderFirstWins ==
  (entry = "strategy" /\ k = 6) =>
    IF urlparse(arg).exc \/ ~HelpHost(arg)
      THEN /\ log = << >>
           /\ pc = "done" => out = Ret(<< >>, None)
      ELSE ProbeLoop

\* C26, amended: for a URL that urlparse rejects try_alternative_urls issues
\* no request and raises.
C26_ProbesInOrderFirstWinsUnlessUrlRaises ==
  (entry = "strategy" /\ k = 6) =>
    IF urlparse(arg).exc
      THEN /\ log = << >>
           /\ pc = "done" => out.exc
    ELSE IF ~HelpHost(arg)
      THEN /\ log = << >>
           /\ pc = "done" => out = Ret(<< >>, None)
      ELSE ProbeLoop

\* a support site: two probes failed and the third returned its page
C26_Witness ==
  /\ Ended(6) /\ In(<<"s","u","p","p","o","r","t">>, lower(arg))
  /\ Cardinality(Events("get")) = 3
  /\ \A n \in Events("get") : Sufficient(n) <=> n = Len(log)
  /\ ~out.exc /\ out.soup # None


(***************************************************************************)
(* The processing run of app.py.                                           *)
(***************************************************************************)
\* the structuring calls of the run that answered with an answer of S
Structured(S) == {n \in 1..Len(log) : log[n].answer \in S}

\* C29: in the AI-processing loop of app.py processed_count is incremented
\* exactly once for every Document Map entry attempted, whether the
\* structuring call succeeds, returns nothing or raises, so after the loop
\* processed_count equals the number of entries in docs.
C29_ProcessedOncePerEntry ==
  entry = "app" =>
    /\ pc = "process" => app.processed_count = app.i
    /\ pc \in {"display", "shown"} => app.processed_count = Len(docs)
    /\ pc \in {"display", "shown"} => app.extraction_results.total_processed = Len(docs)

\* a run over one entry whose structuring call raised, displayed with a
\* processed count of two
C29_Witness ==
  /\ entry = "app" /\ pc = "shown" /\ Len(docs) = 1
  /\ Len(log) = 1 /\ log[1].answer = "raised"
  /\ app.extraction_results.total_processed = 2

\* C30: after each iteration of the AI-processing loop and at display time
\* success_count + fallback_count equals the number of entries stored in
\* all_results, so the 'Display count mismatch' error is never shown.
C30_CountsMatchStoredResults ==
  entry = "app" =>
    /\ app.success_count + app.fallback_count = Len(app.all_results)
    /\ app.extraction_results # None =>
         app.extraction_results.success_count + app.extraction_results.fallback_count
           = Len(app.extraction_results.all_results)
    /\ "Display count mismatch" \notin app.shown

\* a displayed run that stored a successful result and a fallback result and
\* left out an entry whose structuring call raised
C30_Witness ==
  /\ entry = "app" /\ pc = "shown" /\ "Displaying" \in app.shown
  /\ app.extraction_results.success_count > 0
  /\ app.extraction_results.fallback_count > 0
  /\ Structured({"raised"}) # {}
  /\ Len(app.all_results) = 2 /\ Len(docs) = 3

\* the handler of the processing run has run: the run raised
RunRaised == "An error occurred during processing" \in app.shown

\* results are on the page
ResultsDisplayed == app.shown \cap {"Displaying", "No meaningful modules"} # {}

\* C34, as the claim states it: whenever processing_complete is true,
\* processing_in_progress is false and extraction_results is set; a
\* processing run that raises ends with processing_in_progress false and
\* processing_complete false; results are displayed only after a run that
\* completed.
C34_SessionStateConsistent ==
  entry = "app" =>
    /\ app.processing_complete =>
         (~app.processing_in_progress /\ app.extraction_results # None)
    /\ RunRaised => (~app.processing_in_progress /\ ~app.processing_complete)
    /\ ResultsDisplayed => (app.processing_complete /\ app.extraction_results # None)

\* C34, amended: a processing run that raises before its results are stored
\* ends with processing_in_progress false and processing_complete false; one
\* that raises after they are stored ends with processing_complete true,
\* processing_in_progress false and extraction_results set.  The results
\* displayed are those of a run whose loop went through every entry.
C34_SessionStateConsistentOnceStored ==
  entry = "app" =>
    /\ app.processing_complete =>
         (~app.processing_in_progress /\ app.extraction_results # None)
    /\ RunRaised => ~app.processing_in_progress
    /\ RunRaised => (app.processing_complete <=> app.extraction_results # None)
    /\ (RunRaised /\ pc = "failed") =>
         (~app.processing_complete /\ app.extraction_results = None /\ ~ResultsDisplayed)
    /\ ResultsDisplayed =>
         /\ app.processing_complete /\ app.extraction_results # None
         /\ app.i = Len(docs)
    /\ app.processing_in_progress => pc \in {"clicked", "process"}

\* a run that raised after storing its results, which are displayed
\* together with the error
C34_Witness ==
  /\ entry = "app" /\ pc = "shown" /\ RunRaised /\ ResultsDisplayed
  /\ app.processing_complete /\ ~app.processing_in_progress
  /\ Len(app.extraction_results.all_results) >= 1

(***************************************************************************)
(* The crawl: the debug artifact, the size of the Document Map and the     *)
(* hosts it covers.                                                        *)
(***************************************************************************)
\* C31: the debug-artifact write of crawl is unreachable: the extraction
\* wrapper always returns non-empty text to crawl, so 'document present and
\* text empty' never holds and no crawl step writes a debug HTML file.
C31_DebugWriteUnreachable ==
  entry = "crawl" =>
    /\ debug = 0
    /\ ~ret.exc
    /\ pc = "extracted" => (ret.text # << >> /\ ~DebugGate(ret.text, ret.soup))
    /\ \A n \in 1..Len(docs) : docs[n].text # << >>

\* the wrapper returned the fallback text together with a document to a
\* crawl that has recorded a page before
C31_Witness ==
  /\ entry = "crawl" /\ pc = "extracted"
  /\ ret.soup # None /\ In(<<"F","A","L","L","B","A","C","K"," ","C","O","N","T","E","N","T"," ","F","O","R",":"," ">>, ret.text)
  /\ Len(docs) >= 1 /\ debug = 0

RECURSIVE MostEntries(_)
\* 1 + 3 + 3^2 + ... + 3^d
MostEntries(d) == IF d = 0 THEN 1 ELSE 1 + MaxLinks * MostEntries(d - 1)

\* the extraction calls made for the seed whose crawl began with call n: the
\* calls from n up to the next call at depth 0
CallsOfSeed(n) ==
  {m \in n..Len(calls) : \A j \in (n + 1)..m : calls[j].depth # 0}

\* the Document Map entries that the seed of call n contributed
EntriesOfSeed(n) ==
  {m \in CallsOfSeed(n) : \E e \in 1..Len(docs) : docs[e].url = calls[m].url}

\* no crawl of a seed is under way: the loop over urls is between two seeds,
\* or crawl_and_extract has returned or raised
BetweenSeeds == pc \in {"seeds", "returned", "raised"}

\* C32: the number of Document Map entries that one valid seed contributes
\* (itself plus everything crawled through its links) is at most
\* 1 + 3 + 3^2 + ... + 3^max_depth; with max_depth = 1 that is at most 4
\* (counted when the crawl of the seed is over or was left by an exception).
C32_EntriesPerSeedBounded ==
  (entry = "crawl" /\ BetweenSeeds) =>
    \A n \in 1..Len(calls) :
      calls[n].depth = 0 =>
        /\ Cardinality(EntriesOfSeed(n)) <= MostEntries(max_depth)
        /\ max_depth = 1 => Cardinality(EntriesOfSeed(n)) <= 4
        /\ \A m \in CallsOfSeed(n) : calls[m].depth <= max_depth

\* a crawl with max_depth = 1 returned a map to which a seed contributed 4
\* entries
C32_Witness ==
  /\ entry = "crawl" /\ pc = "returned" /\ max_depth = 1
  /\ \E n \in 1..Len(calls) :
       calls[n].depth = 0 /\ Cardinality(EntriesOfSeed(n)) = 4

\* urlparse(u).netloc of the URLs of the model
NetlocOf == [u \in KnownUrls |-> IF urlparse(u).exc THEN << >> ELSE urlparse(u).netloc]

\* the URLs of the model that are valid
ValidUrls == {u \in KnownUrls : is_valid_url(u)}

\* the netloc of the valid seeds
SeedHosts == {NetlocOf[urls[s]] : s \in {n \in 1..Len(urls) : urls[n] \in ValidUrls}}

\* C33: the crawl never leaves the hosts of its seeds: every URL recorded in
\* the Document Map is an invalid seed or has the netloc of some valid seed.
C33_CrawlStaysOnSeedHosts ==
  entry = "crawl" =>
    /\ \A e \in 1..Len(docs) :
         \/ docs[e].url \in {urls[n] : n \in 1..Len(urls)} \ ValidUrls
         \/ /\ docs[e].url \in ValidUrls
            /\ NetlocOf[docs[e].url] \in SeedHosts
    /\ \A u \in visited : NetlocOf[u] \in SeedHosts

\* a returned map holding a page reached through a link, from a page that
\* also links to another host
C33_Witness ==
  /\ entry = "crawl" /\ pc = "returned" /\ urls = << RootUrl >>
  /\ \E e \in 1..Len(docs) : docs[e].url = DocsUrl
  /\ \E a \in 1..Len(Anchors(RootUrl)) :
       NetlocOf[urljoin(RootUrl, Anchors(RootUrl)[a]).url] \notin SeedHosts
=============================================================================
